---- MODULE Spec2Model ----
(***************************************************************************)
(* The Fyers scripts: strategy execution and position monitoring           *)
(* (nifty_strategy.py, strangle_strategy.py, testOrderPlacing.py), the     *)
(* streaming clients with their message handlers and their main()          *)
(* (market_data_stream.py, websocketTest.py), the startup of              *)
(* nifty_options_strategy.py, and the candle-close scheduler of            *)
(* nifty_algo.py.                                                          *)
(*                                                                         *)
(* One behaviour is one run of one script.  The broker is the environment: *)
(* every call to it (quotes, place_order, funds, positions) answers with   *)
(* status "ok", answers with a non-"ok" status, or raises.  The strategy   *)
(* scripts hold no try/except, so a raised call ends the run               *)
(* (pc = "crashed").                                                       *)
(*                                                                         *)
(* The wall clock is the pair now = [weekday, time]; a time of day is the  *)
(* tuple <<hour, minute, second, microsecond>> compared as Python compares *)
(* datetime.time values.  The clock takes the values of ClockTimes and     *)
(* only moves forward, within one day; only the scheduler of nifty_algo.py *)
(* sleeps into the next day.                                               *)
(*                                                                         *)
(* Money is in rupees.  deployed_capital ranges over multiples of 100, for *)
(* which the float products D * (1.0 / 100) of check_exit_conditions are   *)
(* exact, so the integer arithmetic below equals the float arithmetic of   *)
(* the source on every value of the model.                                 *)
(***************************************************************************)
EXTENDS Integers, Sequences, FiniteSets, TLC

VARIABLES
    script,            \* which script this run executes
    pc,                \* position of the run in the script
    now,               \* wall clock: [weekday, time]
    raised,            \* call site of the uncaught exception, or "none"
    positions,         \* self.positions: the orders accepted at entry
    deployed_capital,  \* self.deployed_capital
    position_active,   \* self.position_active
    basket_orders,     \* local of execute_basket_entry / place_ce_basket
    leg,               \* index of the current order in the entry loop
    order_ids,         \* local order_ids of the entry loop
    success,           \* main: "True" / "False" of execute_basket_entry, or "none"
    gate,              \* main: "True" / "False" of should_enter_trade, or "none"
    tick,              \* monitor: the last check_exit_conditions call
    reason,            \* exit_all_positions: its reason argument
    ret,               \* exit_all_positions: where it returns to
    net_positions,     \* exit_all_positions: the netPositions it iterates
    pos,               \* exit_all_positions: index into net_positions
    final_pnl,         \* exit_all_positions: the final P&L it prints, and
                       \* what the broker reports at that moment
    book,              \* broker: net quantity per symbol
    orders,            \* broker: every place_order call, in order
    exit_calls,        \* the reason of every exit_all_positions call
    last_order_at,     \* clock at the last place_order of the basket being
                       \* executed by nifty_strategy.py, or NoTime
    funds_status,      \* status of the funds() response at entry, or "none"
    run,               \* strangle_strategy.py: the locals of run_strategy
    client,            \* the streaming client object
    socket,            \* the SDK socket the client wraps
    driver,            \* the calls made on the streaming client, in order
    proc,              \* the process of a script run through its main()
    replaced,          \* the SDK sockets create_connection has replaced
    in_call            \* the call of the caller that is in progress

vars == <<script, pc, now, raised, positions, deployed_capital,
          position_active, basket_orders, leg, order_ids, success, gate,
          tick, reason, ret, net_positions, pos, final_pnl, book, orders,
          exit_calls, last_order_at, funds_status, run, client, socket,
          driver, proc, replaced, in_call>>

\* the state of the streaming clients, which the strategy scripts leave alone
stream_vars == <<client, socket, driver, proc, replaced,
                 in_call>>

strategy_state == <<positions, deployed_capital, position_active>>

\* the state of a NiftyOptionsStrategy run, which the other scripts leave
\* alone
nifty_vars == <<positions, deployed_capital, position_active, basket_orders,
                leg, order_ids, success, gate, tick, reason, ret,
                net_positions, pos, final_pnl, exit_calls, last_order_at,
                funds_status>>

----------------------------------------------------------------------------
(* Bounds of the model *)

\* deployed capital (utilized margin) ranges over 100 * (0 .. MaxCapitalUnits)
MaxCapitalUnits == 2

\* the broker reports a "pl" in -MaxPl .. MaxPl for each position
MaxPl == 1

\* the sleeps of a polling loop (monitor_positions, run_strategy of the
\* strangle) that may take exactly the time asked for; the later sleeps of
\* the loop overshoot to an instant of the clock
MaxSleeps == 2

----------------------------------------------------------------------------
(* Time of day *)

time(h, m) == <<h, m, 0, 0>>

TimeLT(a, b) ==
    \/ a[1] < b[1]
    \/ a[1] = b[1] /\ a[2] < b[2]
    \/ a[1] = b[1] /\ a[2] = b[2] /\ a[3] < b[3]
    \/ a[1] = b[1] /\ a[2] = b[2] /\ a[3] = b[3] /\ a[4] < b[4]

TimeLE(a, b) == a = b \/ TimeLT(a, b)

\* whole seconds since midnight
SecondsOfDay(t) == t[1] * 3600 + t[2] * 60 + t[3]

\* at least secs seconds and usecs microseconds lie between a and b
Elapsed(a, b, secs, usecs) ==
    LET ds == SecondsOfDay(b) - SecondsOfDay(a)
        du == b[4] - a[4]
    IN  \/ ds > secs + 1
        \/ ds = secs + 1 /\ 1000000 + du >= usecs
        \/ ds = secs /\ du >= usecs

\* the instants the clock takes: each boundary of the source, the instant
\* before and the instant after it
ClockTimes ==
    { <<9, 14, 59, 999999>>, <<9, 15, 0, 0>>,
      <<9, 44, 59, 0>>, <<9, 45, 0, 0>>,
      <<15, 29, 59, 500000>>, <<15, 30, 0, 0>>, <<15, 30, 0, 1>>,
      <<16, 0, 0, 0>> }

\* the last instant: the clock stays there once it is reached
EndOfDay == <<16, 0, 0, 0>>

\* the instants of a run of strangle_strategy.py: around its entry time
\* and its exit time
StrangleTimes ==
    { <<9, 19, 59, 0>>, <<9, 20, 0, 0>>, <<9, 20, 8, 0>>,
      <<12, 0, 0, 0>>,
      <<14, 59, 55, 0>>, <<15, 0, 0, 0>>, <<15, 0, 7, 0>>,
      <<16, 0, 0, 0>> }

\* the instants the clock of this run takes
Instants == IF script = "strangle_strategy" THEN StrangleTimes ELSE ClockTimes

Weekdays == 0 .. 6

----------------------------------------------------------------------------
(* STRATEGY_CONFIG *)

ENTRY_TIME == time(9, 45)
TARGET_PERCENT == 1
STOP_LOSS_PERCENT == 1
LOT_SIZE == 50
STRIKE_INTERVAL == 50

----------------------------------------------------------------------------
(* Helper functions of nifty_strategy.py *)

\* is_market_open with "<" for the second "<=": the window without its end
is_market_open_mut_open_end(n) ==
    IF n.weekday >= 5 THEN FALSE
    ELSE TimeLE(time(9, 15), n.time) /\ TimeLT(n.time, time(15, 30))

is_market_open(n) ==
    IF n.weekday >= 5 THEN FALSE
    ELSE TimeLE(time(9, 15), n.time) /\ TimeLE(n.time, time(15, 30))

\* nifty_algo.py's predicate of the same name: the time of day only
algo_is_market_open(n) ==
    TimeLE(time(9, 15), n.time) /\ TimeLE(n.time, time(15, 30))

\* days from today to the next Wednesday, never today
get_next_expiry(n) ==
    LET d == (2 - n.weekday) % 7
    IN  IF d = 0 THEN 7 ELSE d

\* Python's round(): to the nearest integer, a tie to the even one
PyRound(num, den) ==
    LET q == num \div den
        r == num % den
    IN  IF 2 * r < den THEN q
        ELSE IF 2 * r > den THEN q + 1
        ELSE IF q % 2 = 0 THEN q ELSE q + 1

\* calculate_atm_strike with floor division for round()
calculate_atm_strike_mut_floor(spot_price) ==
    (spot_price \div STRIKE_INTERVAL) * STRIKE_INTERVAL

calculate_atm_strike(spot_price) ==
    PyRound(spot_price, STRIKE_INTERVAL) * STRIKE_INTERVAL

build_option_symbol(underlying, expiry, strike, option_type) ==
    [underlying |-> underlying, expiry |-> expiry, strike |-> strike,
     option_type |-> option_type]

\* should_enter_trade with "<=" for "<": ENTRY_TIME itself is too early
should_enter_trade_mut_strict(n) ==
    IF n.weekday # 0 THEN FALSE
    ELSE IF TimeLE(n.time, ENTRY_TIME) THEN FALSE
    ELSE IF ~is_market_open(n) THEN FALSE
    ELSE TRUE

should_enter_trade(n) ==
    IF n.weekday # 0 THEN FALSE
    ELSE IF TimeLT(n.time, ENTRY_TIME) THEN FALSE
    ELSE IF ~is_market_open(n) THEN FALSE
    ELSE TRUE

\* a Python bool as the run records it
PyBool(b) == IF b THEN "True" ELSE "False"

\* get_strike_configuration with the SELL leg first
get_strike_configuration_mut_sell_first(spot_price) ==
    LET atm_strike == calculate_atm_strike(spot_price)
    IN  << [label |-> "SELL_CE", strike |-> atm_strike + 400,
            qty |-> 3, side |-> -1],
           [label |-> "BUY_ATM_CE", strike |-> atm_strike + 200,
            qty |-> 1, side |-> 1],
           [label |-> "BUY_HEDGE_CE", strike |-> atm_strike + 600,
            qty |-> 2, side |-> 1] >>

\* the three legs in the insertion order of the strikes dict
\* get_strike_configuration with the hedge 300 points out, inside the
\* sold strike
get_strike_configuration_mut_hedge_inside(spot_price) ==
    LET atm_strike == calculate_atm_strike(spot_price)
    IN  << [label |-> "BUY_ATM_CE", strike |-> atm_strike + 200,
            qty |-> 1, side |-> 1],
           [label |-> "SELL_CE", strike |-> atm_strike + 400,
            qty |-> 3, side |-> -1],
           [label |-> "BUY_HEDGE_CE", strike |-> atm_strike + 300,
            qty |-> 2, side |-> 1] >>

get_strike_configuration(spot_price) ==
    LET atm_strike == calculate_atm_strike(spot_price)
    IN  << [label |-> "BUY_ATM_CE", strike |-> atm_strike + 200,
            qty |-> 1, side |-> 1],
           [label |-> "SELL_CE", strike |-> atm_strike + 400,
            qty |-> 3, side |-> -1],
           [label |-> "BUY_HEDGE_CE", strike |-> atm_strike + 600,
            qty |-> 2, side |-> 1] >>

----------------------------------------------------------------------------
(* The broker *)

\* the index quotes the model draws the spot price from: a tie that rounds
\* down and a tie that rounds up
SpotPrices == {22025, 22075}

\* outcome of a broker call: the response's status "s", or the call raising
Outcomes == {"ok", "error", "raise"}

\* a position held in the account before the run, not part of the basket
OtherSymbol == build_option_symbol("IDEA", "", 0, "EQ")
OtherQuantities == {0, 75}

CapitalValues == {100 * u : u \in 0 .. MaxCapitalUnits}

\* the responses of funds(): fund_limit[0] with or without the key
\* "utilized_margin", or a non-"ok" status
FundsResponses ==
    [s : {"ok"}, has_margin : {TRUE}, utilized_margin : CapitalValues]
    \cup [s : {"ok", "error"}, has_margin : {FALSE}, utilized_margin : {0}]

PlValues == (0 - MaxPl) .. MaxPl

\* the responses of positions() on book b: every position with a "pl", or
\* a non-"ok" status
PositionsResponses(b) ==
    { [s |-> "ok",
       netPositions |-> [k \in 1 .. Len(b) |->
                           [symbol |-> b[k].symbol, netQty |-> b[k].netQty,
                            pl |-> pls[k]]]] :
      pls \in [1 .. Len(b) -> PlValues] }
    \cup {[s |-> "error", netPositions |-> << >>]}

RECURSIVE SeqSum(_)
SeqSum(s) == IF s = << >> THEN 0 ELSE Head(s) + SeqSum(Tail(s))

\* the responses of positions() on book b with status "ok"
AnsweredPositions(b) == {r \in PositionsResponses(b) : r.s = "ok"}

\* the sum of the "pl" of the positions a response reports
BrokerPl(response) ==
    SeqSum([k \in 1 .. Len(response.netPositions) |->
              response.netPositions[k].pl])

\* the "pl" of position k when a total is spread over the positions in
\* order, each taking up to MaxPl of it
SpreadPl(total, k) ==
    LET size == IF total < 0 THEN 0 - total ELSE total
        rest == size - (k - 1) * MaxPl
        part == IF rest <= 0 THEN 0 ELSE IF rest > MaxPl THEN MaxPl ELSE rest
    IN  IF total < 0 THEN 0 - part ELSE part

\* one "ok" response of positions() on book b for each sum of "pl" that
\* the broker can report
ReportsBySum(b) ==
    { [s |-> "ok",
       netPositions |-> [k \in 1 .. Len(b) |->
                           [symbol |-> b[k].symbol, netQty |-> b[k].netQty,
                            pl |-> SpreadPl(total, k)]]] :
      total \in (0 - Len(b) * MaxPl) .. (Len(b) * MaxPl) }

\* the responses of positions() that the scripts can tell apart: they read
\* the status, the symbols, the net quantities and the sum of the "pl"
PositionsReports(b) ==
    ReportsBySum(b) \cup {r \in PositionsResponses(b) : r.s # "ok"}

\* what positions() would report when exit_all_positions prints its final
\* P&L, which the script does not ask for any more: the reports whose sum
\* of "pl" is one of PlValues
FinalReports(b) == {r \in ReportsBySum(b) : BrokerPl(r) \in PlValues}

HasSymbol(b, symbol) == \E k \in 1 .. Len(b) : b[k].symbol = symbol

\* the book after a fill of side * qty on symbol
Fill(b, symbol, qty, side) ==
    IF HasSymbol(b, symbol)
    THEN [k \in 1 .. Len(b) |->
            IF b[k].symbol = symbol
            THEN [b[k] EXCEPT !.netQty = @ + side * qty]
            ELSE b[k]]
    ELSE Append(b, [symbol |-> symbol, netQty |-> side * qty])

\* the record the broker keeps of one place_order call; an accepted order
\* is answered with a fresh id.  "call" is the number of exit_all_positions
\* calls made so far: inside exit_all_positions, the call that places it
OrderCall(payload, by, status) ==
    [symbol |-> payload.symbol, qty |-> payload.qty, side |-> payload.side,
     orderTag |-> payload.orderTag, by |-> by, status |-> status,
     id |-> IF status = "ok" THEN Len(orders) + 1 ELSE 0,
     call |-> Len(exit_calls)]

----------------------------------------------------------------------------
(* The clock *)

LaterTimes(t) == {u \in Instants : TimeLT(t, u)}

\* t moved on by secs seconds and usecs microseconds; the clock stays at
\* the last instant of the day
TimeAfter(t, secs, usecs) ==
    LET us == t[4] + usecs
        s == SecondsOfDay(t) + secs + us \div 1000000
        u == <<s \div 3600, (s \div 60) % 60, s % 60, us % 1000000>>
    IN  IF TimeLT(EndOfDay, u) THEN EndOfDay ELSE u

\* a sleep that overshoots: the clock is at an instant at least that long
\* after t
Overslept(t, secs, usecs) ==
    LET later == {u \in Instants : Elapsed(t, u, secs, usecs)}
    IN  IF later = {} THEN {EndOfDay} ELSE later

\* sleep(secs + usecs / 1e6): the clock moves on by exactly that long, or
\* by more
SleepTimes(t, secs, usecs) ==
    {TimeAfter(t, secs, usecs)} \cup Overslept(t, secs, usecs)

Running == pc \notin {"done", "crashed"}

\* time passes while the script runs
ClockAdvance ==
    /\ Running
    /\ \E u \in LaterTimes(now.time) : now' = [now EXCEPT !.time = u]
    /\ UNCHANGED <<script, pc, raised, positions, deployed_capital,
                   position_active, basket_orders, leg, order_ids, success,
                   gate, tick, reason, ret, net_positions, pos, final_pnl,
                   book, orders, exit_calls,
                   last_order_at, funds_status, run, stream_vars>>

----------------------------------------------------------------------------
(* nifty_strategy.py: main *)

\* no place_order yet in the basket being executed
NoTime == << >>

\* Python's None, and a value that is not None
None == [none |-> TRUE, v |-> 0]
Some(v) == [none |-> FALSE, v |-> v]

\* "not x" on an optional number: None and 0 are falsy
Falsy(x) == x.none \/ x.v = 0

NoSymbol == build_option_symbol("", "", 0, "")

\* run_strategy's "positions = None"
NoPositions ==
    [is_none |-> TRUE, ce_symbol |-> NoSymbol, pe_symbol |-> NoSymbol,
     ce_strike |-> 0, pe_strike |-> 0, quantity |-> 0,
     ce_order_id |-> 0, pe_order_id |-> 0]

\* the locals of run_strategy and of the execute_strangle_entry it calls;
\* entry_calls counts the calls of execute_strangle_entry
NoRun ==
    [now |-> NoTime, positions |-> NoPositions, entry_done |-> FALSE,
     exit_done |-> FALSE, entry_calls |-> 0, atm_strike |-> 0,
     ce_strike |-> 0, pe_strike |-> 0, ce_symbol |-> NoSymbol,
     pe_symbol |-> NoSymbol, ce_order |-> [s |-> "none", id |-> 0],
     sleeps |-> 0]

\* no streaming client in the runs of the strategy scripts
NoClient == [ws |-> "None", is_running |-> FALSE]
NoSocket == [state |-> "none"]

\* no call of the caller is in progress
NoCall == [op |-> "none", ws_before |-> "None", running_before |-> FALSE]

\* a run that is not one of the main() functions of the streaming scripts
\* or of nifty_options_strategy.py
NoProc == [exit_code |-> -1, profile |-> "none"]

\* exit_all_positions has not printed a final P&L
NoFinalPnl == [printed |-> FALSE, value |-> 0, broker |-> 0]

NoTick == [passes |-> 0, status |-> "none", pnl |-> 0,
           should_exit |-> FALSE, reason |-> "None"]

Init ==
    /\ script \in {"nifty_strategy", "place_ce_basket", "strangle_strategy"}
    /\ pc = CASE script = "nifty_strategy" -> "n_main"
              [] script = "place_ce_basket" -> "ce_basket"
              [] script = "strangle_strategy" -> "s_main"
    /\ now \in [weekday : IF script = "strangle_strategy" THEN {0, 5}
                           ELSE Weekdays,
                 time : Instants]
    /\ raised = "none"
    /\ positions = << >>
    /\ deployed_capital = 0
    /\ position_active = FALSE
    /\ basket_orders = << >>
    /\ leg = 0
    /\ order_ids = << >>
    /\ success = "none"
    /\ gate = "none"
    /\ tick = NoTick
    /\ reason = "None"
    /\ ret = "none"
    /\ net_positions = << >>
    /\ pos = 0
    /\ final_pnl = NoFinalPnl
    /\ \E q \in OtherQuantities :
          book = << [symbol |-> OtherSymbol, netQty |-> q] >>
    /\ orders = << >>
    /\ exit_calls = << >>
    /\ last_order_at = NoTime
    /\ funds_status = "none"
    /\ run = NoRun
    /\ client = NoClient
    /\ socket = NoSocket
    /\ replaced = << >>
    /\ in_call = NoCall
    /\ driver = << >>
    /\ proc = NoProc

\* what fyers.get_profile() returns: a success carries "data" with the
\* account's name, a rejection is {"s": "error", "code", "message"}
ProfileResponses == { [s |-> "ok", data |-> TRUE],
                      [s |-> "error", data |-> FALSE] }

\* main: profile = fyers.get_profile() and the print of
\* profile['data']['name'], which raises KeyError on a response without
\* "data"; the status of the response is not read
NiftyMain ==
    /\ pc = "n_main"
    /\ \/ \E profile \in ProfileResponses :
             /\ proc' = [proc EXCEPT !.profile = profile.s]
             /\ IF profile.data
                THEN pc' = "gate" /\ UNCHANGED raised
                ELSE pc' = "crashed" /\ raised' = "profile_name"
       \/ /\ proc' = [proc EXCEPT !.profile = "raise"]
          /\ pc' = "crashed"
          /\ raised' = "get_profile"
    /\ UNCHANGED <<script, now, positions, deployed_capital,
                   position_active, basket_orders, leg, order_ids, success,
                   gate, tick, reason, ret, net_positions, pos, final_pnl,
                   book, orders, exit_calls, last_order_at, funds_status,
                   run, client, socket, driver, replaced, in_call>>

\* main: if strategy.should_enter_trade()
EntryGate ==
    /\ pc = "gate"
    /\ gate' = PyBool(should_enter_trade(now))
    /\ pc' = IF should_enter_trade(now) THEN "entry" ELSE "done"
    /\ UNCHANGED <<script, now, raised, positions, deployed_capital,
                   position_active, basket_orders, leg, order_ids, success,
                   tick, reason, ret, net_positions, pos, final_pnl, book,
                   orders, exit_calls,
                   last_order_at, funds_status, run, stream_vars>>

----------------------------------------------------------------------------
(* nifty_strategy.py: execute_basket_entry *)

\* the basket built from the strikes, in their order
BuildBasket(spot_price, n) ==
    LET strikes == get_strike_configuration(spot_price)
    IN  [k \in 1 .. Len(strikes) |->
           [symbol |-> build_option_symbol("NIFTY", get_next_expiry(n),
                                           strikes[k].strike, "CE"),
            qty |-> strikes[k].qty * LOT_SIZE,
            side |-> strikes[k].side,
            strike |-> strikes[k].strike,
            label |-> strikes[k].label,
            orderTag |-> strikes[k].label]]

\* get_nifty_spot_price, then the basket is built; a non-"ok" quote raises
EntryQuote ==
    /\ pc = "entry"
    /\ \/ \E lp \in SpotPrices :
             /\ basket_orders' = BuildBasket(lp, now)
             /\ leg' = 1
             /\ pc' = "entry_place"
             /\ UNCHANGED raised
       \/ /\ pc' = "crashed"
          /\ raised' = "get_nifty_spot_price"
          /\ UNCHANGED <<basket_orders, leg>>
    /\ UNCHANGED <<script, now, positions, deployed_capital, position_active,
                   order_ids, success, gate, tick, reason, ret,
                   net_positions, pos, final_pnl, book, orders, exit_calls,
                   last_order_at, funds_status, run, stream_vars>>

\* EntryPlace without the "return False": a rejected leg is only printed
EntryPlace_mut_continue(outcome) ==
    /\ pc = "entry_place"
    /\ leg <= Len(basket_orders)
    /\ LET order == basket_orders[leg]
       IN  /\ orders' = Append(orders,
                               OrderCall(order, "execute_basket_entry", outcome))
           /\ last_order_at' = now.time
           /\ IF outcome = "ok"
              THEN /\ order_ids' = Append(order_ids,
                                          [id |-> Len(orders) + 1,
                                           label |-> order.label,
                                           symbol |-> order.symbol,
                                           qty |-> order.qty,
                                           side |-> order.side])
                   /\ positions' = Append(positions, order)
                   /\ book' = Fill(book, order.symbol, order.qty, order.side)
                   /\ pc' = "entry_pace"
                   /\ UNCHANGED <<success, raised>>
              ELSE IF outcome = "error"
              THEN /\ pc' = "entry_pace"
                   /\ UNCHANGED <<order_ids, positions, book, success, raised>>
              ELSE /\ pc' = "crashed"
                   /\ raised' = "place_order"
                   /\ UNCHANGED <<order_ids, positions, book, success>>
    /\ UNCHANGED <<script, now, deployed_capital, position_active,
                   basket_orders, leg, gate, tick, reason, ret,
                   net_positions, pos, final_pnl, exit_calls,
                   funds_status, run, stream_vars>>

\* EntryPlace that unwinds on a rejected leg: before returning False it
\* sends an order reversing the first accepted leg
EntryPlace_mut_unwind(outcome) ==
    /\ pc = "entry_place"
    /\ leg <= Len(basket_orders)
    /\ LET order == basket_orders[leg]
       IN  /\ orders' =
                 IF outcome = "error" /\ positions # << >>
                 THEN Append(Append(orders,
                                    OrderCall(order, "execute_basket_entry",
                                              outcome)),
                             OrderCall([positions[1] EXCEPT !.side = 0 - @],
                                       "unwind", "ok"))
                 ELSE Append(orders,
                             OrderCall(order, "execute_basket_entry", outcome))
           /\ last_order_at' = now.time
           /\ IF outcome = "ok"
              THEN /\ order_ids' = Append(order_ids,
                                          [id |-> Len(orders) + 1,
                                           label |-> order.label,
                                           symbol |-> order.symbol,
                                           qty |-> order.qty,
                                           side |-> order.side])
                   /\ positions' = Append(positions, order)
                   /\ book' = Fill(book, order.symbol, order.qty, order.side)
                   /\ pc' = "entry_pace"
                   /\ UNCHANGED <<success, raised>>
              ELSE IF outcome = "error"
              THEN /\ success' = "False"
                   /\ pc' = "done"
                   /\ book' = IF positions # << >>
                              THEN Fill(book, positions[1].symbol,
                                        positions[1].qty,
                                        0 - positions[1].side)
                              ELSE book
                   /\ UNCHANGED <<order_ids, positions, raised>>
              ELSE /\ pc' = "crashed"
                   /\ raised' = "place_order"
                   /\ UNCHANGED <<order_ids, positions, book, success>>
    /\ UNCHANGED <<script, now, deployed_capital, position_active,
                   basket_orders, leg, gate, tick, reason, ret,
                   net_positions, pos, final_pnl, exit_calls,
                   funds_status, run, stream_vars>>

\* one pass of the loop body up to the sleep: the order is placed and its
\* response handled; a non-"ok" response returns False to main
EntryPlace(outcome) ==
    /\ pc = "entry_place"
    /\ leg <= Len(basket_orders)
    /\ LET order == basket_orders[leg]
       IN  /\ orders' = Append(orders,
                               OrderCall(order, "execute_basket_entry", outcome))
           /\ last_order_at' = now.time
           /\ IF outcome = "ok"
              THEN /\ order_ids' = Append(order_ids,
                                          [id |-> Len(orders) + 1,
                                           label |-> order.label,
                                           symbol |-> order.symbol,
                                           qty |-> order.qty,
                                           side |-> order.side])
                   /\ positions' = Append(positions, order)
                   /\ book' = Fill(book, order.symbol, order.qty, order.side)
                   /\ pc' = "entry_pace"
                   /\ UNCHANGED <<success, raised>>
              ELSE IF outcome = "error"
              THEN /\ success' = "False"
                   /\ pc' = "done"
                   /\ UNCHANGED <<order_ids, positions, book, raised>>
              ELSE /\ pc' = "crashed"
                   /\ raised' = "place_order"
                   /\ UNCHANGED <<order_ids, positions, book, success>>
    /\ UNCHANGED <<script, now, deployed_capital, position_active,
                   basket_orders, leg, gate, tick, reason, ret,
                   net_positions, pos, final_pnl, exit_calls,
                   funds_status, run, stream_vars>>

\* EntryPace without the sleep(0.5)
EntryPace_mut_no_sleep ==
    /\ pc = "entry_pace"
    /\ now' = now
    /\ leg' = leg + 1
    /\ pc' = IF leg + 1 <= Len(basket_orders) THEN "entry_place"
             ELSE "entry_funds"
    /\ UNCHANGED <<script, raised, positions, deployed_capital,
                   position_active, basket_orders, order_ids, success, gate,
                   tick, reason, ret, net_positions, pos, final_pnl, book,
                   orders, exit_calls,
                   last_order_at, funds_status, run, stream_vars>>

\* sleep(0.5), then the next order, or the end of the loop
EntryPace ==
    /\ pc = "entry_pace"
    /\ \E u \in SleepTimes(now.time, 0, 500000) :
          now' = [now EXCEPT !.time = u]
    /\ leg' = leg + 1
    /\ pc' = IF leg + 1 <= Len(basket_orders) THEN "entry_place"
             ELSE "entry_funds"
    /\ UNCHANGED <<script, raised, positions, deployed_capital,
                   position_active, basket_orders, order_ids, success, gate,
                   tick, reason, ret, net_positions, pos, final_pnl, book,
                   orders, exit_calls,
                   last_order_at, funds_status, run, stream_vars>>

calculate_deployed_capital(funds) ==
    IF funds.s = "ok"
    THEN IF funds.has_margin THEN funds.utilized_margin ELSE 0
    ELSE 0

\* position_active = True, then calculate_deployed_capital; returns True
EntryFunds ==
    /\ pc = "entry_funds"
    /\ position_active' = TRUE
    /\ last_order_at' = NoTime
    /\ \/ \E funds \in FundsResponses :
             /\ deployed_capital' = calculate_deployed_capital(funds)
             /\ funds_status' = funds.s
             /\ success' = "True"
             /\ pc' = "monitor"
             /\ UNCHANGED raised
       \/ /\ pc' = "crashed"
          /\ raised' = "funds"
          /\ funds_status' = "raise"
          /\ UNCHANGED <<deployed_capital, success>>
    /\ UNCHANGED <<script, now, positions, basket_orders, leg, order_ids,
                   gate, tick, reason, ret, net_positions, pos, final_pnl,
                   book, orders, exit_calls,
                   run, stream_vars>>

----------------------------------------------------------------------------
(* nifty_strategy.py: calculate_current_pnl, check_exit_conditions *)

calculate_current_pnl(active, response) ==
    IF ~active THEN 0
    ELSE IF response.s # "ok" THEN 0
    ELSE SeqSum([k \in 1 .. Len(response.netPositions) |->
                   response.netPositions[k].pl])

target_amount(deployed) == (deployed * TARGET_PERCENT) \div 100

sl_amount(deployed) == 0 - ((deployed * STOP_LOSS_PERCENT) \div 100)

\* check_exit_conditions with the stop-loss test before the target test
check_exit_conditions_mut_sl_first(active, current_pnl, deployed) ==
    IF ~active THEN [should_exit |-> FALSE, reason |-> "None"]
    ELSE IF current_pnl <= sl_amount(deployed)
    THEN [should_exit |-> TRUE, reason |-> "STOP_LOSS"]
    ELSE IF current_pnl >= target_amount(deployed)
    THEN [should_exit |-> TRUE, reason |-> "TARGET"]
    ELSE [should_exit |-> FALSE, reason |-> "None"]

\* check_exit_conditions with ">" for ">=" in the target test
check_exit_conditions_mut_strict(active, current_pnl, deployed) ==
    IF ~active THEN [should_exit |-> FALSE, reason |-> "None"]
    ELSE IF current_pnl > target_amount(deployed)
    THEN [should_exit |-> TRUE, reason |-> "TARGET"]
    ELSE IF current_pnl <= sl_amount(deployed)
    THEN [should_exit |-> TRUE, reason |-> "STOP_LOSS"]
    ELSE [should_exit |-> FALSE, reason |-> "None"]

\* check_exit_conditions that makes no decision without deployed capital
check_exit_conditions_mut_skip_zero(active, current_pnl, deployed) ==
    IF ~active \/ deployed = 0 THEN [should_exit |-> FALSE, reason |-> "None"]
    ELSE IF current_pnl >= target_amount(deployed)
    THEN [should_exit |-> TRUE, reason |-> "TARGET"]
    ELSE IF current_pnl <= sl_amount(deployed)
    THEN [should_exit |-> TRUE, reason |-> "STOP_LOSS"]
    ELSE [should_exit |-> FALSE, reason |-> "None"]

\* the decision on the P&L that calculate_current_pnl returned
check_exit_conditions(active, current_pnl, deployed) ==
    IF ~active THEN [should_exit |-> FALSE, reason |-> "None"]
    ELSE IF current_pnl >= target_amount(deployed)
    THEN [should_exit |-> TRUE, reason |-> "TARGET"]
    ELSE IF current_pnl <= sl_amount(deployed)
    THEN [should_exit |-> TRUE, reason |-> "STOP_LOSS"]
    ELSE [should_exit |-> FALSE, reason |-> "None"]

----------------------------------------------------------------------------
(* nifty_strategy.py: monitor_positions *)

\* while self.position_active and is_market_open()
MonitorLoop ==
    /\ pc = "monitor"
    /\ pc' = IF position_active /\ is_market_open(now) THEN "monitor_check"
             ELSE "monitor_close"
    /\ UNCHANGED <<script, now, raised, positions, deployed_capital,
                   position_active, basket_orders, leg, order_ids, success,
                   gate, tick, reason, ret, net_positions, pos, final_pnl,
                   book, orders, exit_calls,
                   last_order_at, funds_status, run, stream_vars>>

\* the passes of the loop body so far, this one included, counted up to
\* MaxSleeps + 1
Passed == IF tick.passes > MaxSleeps THEN tick.passes ELSE tick.passes + 1

\* one tick: check_exit_conditions, then exit_all_positions and break, or
\* on to the sleep; positions() raising ends the run
MonitorCheck ==
    /\ pc = "monitor_check"
    /\ \/ \E response \in PositionsReports(book) :
             LET current_pnl == calculate_current_pnl(position_active, response)
                 decision == check_exit_conditions(position_active,
                                                   current_pnl,
                                                   deployed_capital)
             IN  /\ tick' = [passes |-> Passed, status |-> response.s,
                             pnl |-> current_pnl,
                             should_exit |-> decision.should_exit,
                             reason |-> decision.reason]
                 /\ IF decision.should_exit
                    THEN /\ reason' = decision.reason
                         /\ ret' = "monitor_close"
                         /\ pc' = "exit"
                    ELSE /\ pc' = "monitor_sleep"
                         /\ UNCHANGED <<reason, ret>>
                 /\ UNCHANGED raised
       \/ /\ tick' = [passes |-> Passed, status |-> "raise", pnl |-> 0,
                      should_exit |-> FALSE,
                      reason |-> "None"]
          /\ pc' = "crashed"
          /\ raised' = "calculate_current_pnl"
          /\ UNCHANGED <<reason, ret>>
    /\ UNCHANGED <<script, now, positions, deployed_capital, position_active,
                   basket_orders, leg, order_ids, success, gate,
                   net_positions, pos, final_pnl, book, orders, exit_calls,
                   last_order_at, funds_status, run, stream_vars>>

\* sleep(check_interval), check_interval = 30
MonitorSleep ==
    /\ pc = "monitor_sleep"
    /\ \E u \in IF tick.passes <= MaxSleeps
                THEN SleepTimes(now.time, 30, 0)
                ELSE Overslept(now.time, 30, 0) :
          now' = [now EXCEPT !.time = u]
    /\ pc' = "monitor"
    /\ UNCHANGED <<script, raised, positions, deployed_capital,
                   position_active, basket_orders, leg, order_ids, success,
                   gate, tick, reason, ret, net_positions, pos, final_pnl,
                   book, orders, exit_calls,
                   last_order_at, funds_status, run, stream_vars>>

\* after the loop: if self.position_active and not is_market_open()
MonitorClose ==
    /\ pc = "monitor_close"
    /\ IF position_active /\ ~is_market_open(now)
       THEN /\ reason' = "MARKET_CLOSE"
            /\ ret' = "done"
            /\ pc' = "exit"
       ELSE /\ pc' = "done"
            /\ UNCHANGED <<reason, ret>>
    /\ UNCHANGED <<script, now, raised, positions, deployed_capital,
                   position_active, basket_orders, leg, order_ids, success,
                   gate, tick, net_positions, pos, final_pnl, book, orders,
                   exit_calls,
                   last_order_at, funds_status, run, stream_vars>>

----------------------------------------------------------------------------
(* nifty_strategy.py: exit_all_positions *)

\* the guard and the positions query; a non-"ok" response returns
ExitStart ==
    /\ pc = "exit"
    /\ exit_calls' = Append(exit_calls, reason)
    /\ IF ~position_active
       THEN /\ pc' = ret
            /\ UNCHANGED <<net_positions, pos, raised>>
       ELSE /\ \/ \E response \in PositionsReports(book) :
                     IF response.s # "ok"
                     THEN /\ pc' = ret
                          /\ UNCHANGED <<net_positions, pos, raised>>
                     ELSE /\ net_positions' =
                               [k \in 1 .. Len(response.netPositions) |->
                                  [symbol |-> response.netPositions[k].symbol,
                                   netQty |-> response.netPositions[k].netQty]]
                          /\ pos' = 1
                          /\ pc' = "exit_loop"
                          /\ UNCHANGED raised
               \/ /\ pc' = "crashed"
                  /\ raised' = "exit_all_positions"
                  /\ UNCHANGED <<net_positions, pos>>
    /\ UNCHANGED <<script, now, positions, deployed_capital, position_active,
                   basket_orders, leg, order_ids, success, gate, tick, reason,
                   ret, final_pnl, book, orders,
                   last_order_at, funds_status, run, stream_vars>>


ExitTag(r) ==
    CASE r = "TARGET" -> "EXIT_TARGET"
      [] r = "STOP_LOSS" -> "EXIT_STOP_LOSS"
      [] r = "MARKET_CLOSE" -> "EXIT_MARKET_CLOSE"
      [] OTHER -> "EXIT_MANUAL"

\* exit_order with the side of the position kept instead of inverted
exit_order_mut_same_side(p, r) ==
    [symbol |-> p.symbol,
     qty |-> IF p.netQty < 0 THEN 0 - p.netQty ELSE p.netQty,
     side |-> IF p.netQty > 0 THEN 1 ELSE -1,
     orderTag |-> ExitTag(r)]

\* the order that reverses a position
exit_order(p, r) ==
    [symbol |-> p.symbol,
     qty |-> IF p.netQty < 0 THEN 0 - p.netQty ELSE p.netQty,
     side |-> IF p.netQty > 0 THEN -1 ELSE 1,
     orderTag |-> ExitTag(r)]

\* if net_qty == 0: continue
ExitSkip ==
    /\ pc = "exit_loop"
    /\ pos <= Len(net_positions)
    /\ net_positions[pos].netQty = 0
    /\ pos' = pos + 1
    /\ UNCHANGED <<script, pc, now, raised, positions, deployed_capital,
                   position_active, basket_orders, leg, order_ids, success,
                   gate, tick, reason, ret, net_positions, final_pnl, book,
                   orders, exit_calls,
                   last_order_at, funds_status, run, stream_vars>>

\* the closing order of one position; its response is printed, not read
ExitPlace(outcome) ==
    /\ pc = "exit_loop"
    /\ pos <= Len(net_positions)
    /\ net_positions[pos].netQty # 0
    /\ LET order == exit_order(net_positions[pos], reason)
       IN  /\ orders' = Append(orders,
                               OrderCall(order, "exit_all_positions", outcome))
           /\ last_order_at' = now.time
           /\ book' = IF outcome = "ok"
                      THEN Fill(book, order.symbol, order.qty, order.side)
                      ELSE book
    /\ IF outcome = "raise"
       THEN pc' = "crashed" /\ raised' = "place_order"
       ELSE pc' = "exit_pace" /\ UNCHANGED raised
    /\ UNCHANGED <<script, now, positions, deployed_capital, position_active,
                   basket_orders, leg, order_ids, success, gate, tick, reason,
                   ret, net_positions, pos, final_pnl, exit_calls,
                   funds_status, run, stream_vars>>

\* sleep(0.5), then the next position
ExitPace ==
    /\ pc = "exit_pace"
    /\ \E u \in SleepTimes(now.time, 0, 500000) :
          now' = [now EXCEPT !.time = u]
    /\ pos' = pos + 1
    /\ pc' = "exit_loop"
    /\ UNCHANGED <<script, raised, positions, deployed_capital,
                   position_active, basket_orders, leg, order_ids, success,
                   gate, tick, reason, ret, net_positions, final_pnl, book,
                   orders, exit_calls,
                   last_order_at, funds_status, run, stream_vars>>

\* ExitFinish without "self.position_active = False"
ExitFinish_mut_keep_active ==
    /\ pc = "exit_loop"
    /\ pos > Len(net_positions)
    /\ UNCHANGED position_active
    /\ last_order_at' = NoTime
    /\ \E response \in FinalReports(book) :
          final_pnl' = [printed |-> TRUE,
                        value |-> calculate_current_pnl(position_active,
                                                        response),
                        broker |-> BrokerPl(response)]
    /\ pc' = ret
    /\ UNCHANGED <<script, now, raised, positions, deployed_capital,
                   basket_orders, leg, order_ids, success, gate, tick, reason,
                   ret, net_positions, pos, book, orders, exit_calls,
                   funds_status, run, stream_vars>>

\* after the loop: position_active = False, then the final P&L, which
\* calculate_current_pnl answers without a query now that nothing is
\* active; "broker" is the sum of the "pl" that positions() reports at that
\* moment
ExitFinish ==
    /\ pc = "exit_loop"
    /\ pos > Len(net_positions)
    /\ position_active' = FALSE
    /\ last_order_at' = NoTime
    /\ \E response \in FinalReports(book) :
          final_pnl' = [printed |-> TRUE,
                        value |-> calculate_current_pnl(position_active',
                                                        response),
                        broker |-> BrokerPl(response)]
    /\ pc' = ret
    /\ UNCHANGED <<script, now, raised, positions, deployed_capital,
                   basket_orders, leg, order_ids, success, gate, tick, reason,
                   ret, net_positions, pos, book, orders, exit_calls,
                   funds_status, run, stream_vars>>

----------------------------------------------------------------------------
(* testOrderPlacing.py: place_test_order, which main() calls, and          *)
(* place_ce_basket, whose call in main() is commented out.  Either         *)
(* function is run on the client main() has built.                         *)

ATM_STRIKE == 22000
CE_LOT_SIZE == 50

CeBasketOrders ==
    << [symbol |-> build_option_symbol("NIFTY", "24JAN", ATM_STRIKE, "CE"),
        qty |-> 1 * CE_LOT_SIZE, side |-> 1, orderTag |-> "BUY_ATM_CE"],
       [symbol |-> build_option_symbol("NIFTY", "24JAN", ATM_STRIKE + 200, "CE"),
        qty |-> 3 * CE_LOT_SIZE, side |-> -1, orderTag |-> "SELL_200_CE"],
       [symbol |-> build_option_symbol("NIFTY", "24JAN", ATM_STRIKE + 400, "CE"),
        qty |-> 2 * CE_LOT_SIZE, side |-> 1, orderTag |-> "BUY_400_CE"] >>

\* place_test_order: one market order, BUY 1 NSE:IDEA-EQ; the response is
\* printed
PlaceTestOrder(outcome) ==
    /\ pc = "ce_basket"
    /\ LET order == [symbol |-> OtherSymbol, qty |-> 1, side |-> 1,
                     orderTag |-> "tag1"]
       IN  /\ orders' = Append(orders,
                               OrderCall(order, "place_test_order", outcome))
           /\ book' = IF outcome = "ok"
                      THEN Fill(book, order.symbol, order.qty, order.side)
                      ELSE book
    /\ IF outcome = "raise"
       THEN pc' = "crashed" /\ raised' = "place_order"
       ELSE pc' = "done" /\ UNCHANGED raised
    /\ UNCHANGED <<script, now, positions, deployed_capital, position_active,
                   basket_orders, leg, order_ids, success, gate, tick, reason,
                   ret, net_positions, pos, final_pnl, exit_calls,
                   last_order_at, funds_status, run, stream_vars>>

\* place_ce_basket: the three orders of the basket
CeBasket ==
    /\ pc = "ce_basket"
    /\ basket_orders' = CeBasketOrders
    /\ leg' = 1
    /\ pc' = "ce_place"
    /\ UNCHANGED <<script, now, raised, positions, deployed_capital,
                   position_active, order_ids, success, gate, tick, reason,
                   ret, net_positions, pos, final_pnl, book, orders,
                   exit_calls,
                   last_order_at, funds_status, run, stream_vars>>

\* one pass of the loop: the order is placed; a non-"ok" response breaks
\* out of the loop, and order_ids is returned
CePlace(outcome) ==
    /\ pc = "ce_place"
    /\ leg <= Len(basket_orders)
    /\ LET order == basket_orders[leg]
       IN  /\ orders' = Append(orders,
                               OrderCall(order, "place_ce_basket", outcome))
           /\ IF outcome = "ok"
              THEN /\ order_ids' = Append(order_ids, Len(orders) + 1)
                   /\ book' = Fill(book, order.symbol, order.qty, order.side)
              ELSE UNCHANGED <<order_ids, book>>
    /\ leg' = IF outcome = "ok" THEN leg + 1 ELSE leg
    /\ IF outcome = "raise"
       THEN pc' = "crashed" /\ raised' = "place_order"
       ELSE /\ pc' = IF outcome = "ok" /\ leg + 1 <= Len(basket_orders)
                     THEN "ce_place" ELSE "done"
            /\ UNCHANGED raised
    /\ UNCHANGED <<script, now, positions, deployed_capital, position_active,
                   basket_orders, success, gate, tick, reason, ret,
                   net_positions, pos, final_pnl, exit_calls,
                   last_order_at, funds_status, run, stream_vars>>

----------------------------------------------------------------------------
(* nifty_strategy.py: exit_all_positions called directly *)

\* how many times the caller invokes exit_all_positions
MaxExitCalls == 2

HeldQuantities == {-150, 0, 50}

\* the books the calls start on: the position of another strategy and one
\* option position, each long, short or flat
ExitBooks ==
    { << [symbol |-> OtherSymbol, netQty |-> q],
         [symbol |-> build_option_symbol("NIFTY", "24JAN", ATM_STRIKE, "CE"),
          netQty |-> h] >> :
      q \in OtherQuantities, h \in HeldQuantities }

\* a NiftyOptionsStrategy object, active or not, on any of the books
InitExit ==
    /\ script = "exit_all_positions"
    /\ pc = "call"
    /\ now \in [weekday : {0}, time : ClockTimes]
    /\ raised = "none"
    /\ positions = << >>
    /\ deployed_capital = 0
    /\ position_active \in BOOLEAN
    /\ basket_orders = << >>
    /\ leg = 0
    /\ order_ids = << >>
    /\ success = "none"
    /\ gate = "none"
    /\ tick = NoTick
    /\ reason = "None"
    /\ ret = "none"
    /\ net_positions = << >>
    /\ pos = 0
    /\ final_pnl = NoFinalPnl
    /\ book \in ExitBooks
    /\ orders = << >>
    /\ exit_calls = << >>
    /\ last_order_at = NoTime
    /\ funds_status = "none"
    /\ run = NoRun
    /\ client = NoClient
    /\ socket = NoSocket
    /\ replaced = << >>
    /\ in_call = NoCall
    /\ driver = << >>
    /\ proc = NoProc

\* strategy.exit_all_positions(), with the default reason
ManualExit ==
    /\ pc = "call"
    /\ Len(exit_calls) < MaxExitCalls
    /\ reason' = "MANUAL"
    /\ ret' = "call"
    /\ pc' = "exit"
    /\ UNCHANGED <<script, now, raised, positions, deployed_capital,
                   position_active, basket_orders, leg, order_ids, success,
                   gate, tick, net_positions, pos, final_pnl, book, orders,
                   exit_calls, last_order_at, funds_status, run, stream_vars>>

NextExit ==
    \/ ClockAdvance
    \/ ManualExit
    \/ ExitStart
    \/ ExitSkip
    \/ \E outcome \in Outcomes : ExitPlace(outcome)
    \/ ExitPace
    \/ ExitFinish

SpecExit == InitExit /\ [][NextExit]_vars

----------------------------------------------------------------------------
(* strangle_strategy.py: STRATEGY and the helper functions *)

QUANTITY == 65
STRIKE_BASE == 50
STRANGLE_ENTRY_TIME == time(9, 20)
STRANGLE_EXIT_TIME == time(15, 0)

get_atm_strike(ltp, base) == base * PyRound(ltp, base)

\* the responses of quotes(): "ok" with or without data in "d", the last
\* price possibly 0, or a non-"ok" status
QuoteResponses ==
    [s : {"ok"}, has_d : {TRUE}, lp : SpotPrices \cup {0}]
    \cup [s : {"ok", "error"}, has_d : {FALSE}, lp : {0}]

get_ltp(response) ==
    IF response.s = "ok" /\ response.has_d THEN Some(response.lp) ELSE None

\* the "date" fields of expiryData, as numbers YYYYMMDD
ExpiryLists == { <<20240125>>, <<20240201, 20240125>> }

\* the responses of optionchain(): "ok" with the expiries, their dates
\* written as %Y%m%d or in another format, or a non-"ok" status
OptionChainResponses ==
    [s : {"ok"}, expiries : ExpiryLists, format : {"%Y%m%d", "%d-%m-%Y"}]
    \cup {[s |-> "error", expiries |-> << >>, format |-> "%Y%m%d"]}

\* the order of two 'date' values as min() compares them: as they are
\* written.  A date is kept as the number yyyymmdd; written "%Y%m%d" the
\* order is the order of the numbers, written "%d-%m-%Y" it is the order of
\* the texts dd-mm-yyyy, the day first.
DateKey(d, format) ==
    IF format = "%Y%m%d"
    THEN d
    ELSE (d % 100) * 1000000 + ((d \div 100) % 100) * 10000 + d \div 10000

\* min(expiries, key=lambda x: x['date'])
MinDate(dates, format) ==
    CHOOSE d \in {dates[k] : k \in 1 .. Len(dates)} :
       \A k \in 1 .. Len(dates) :
          DateKey(d, format) <= DateKey(dates[k], format)

get_nearest_expiry(response) ==
    IF response.s = "ok"
    THEN Some(MinDate(response.expiries, response.format))
    ELSE None

MonthAbbr == <<"JAN", "FEB", "MAR", "APR", "MAY", "JUN",
               "JUL", "AUG", "SEP", "OCT", "NOV", "DEC">>

\* strftime("%y%b").upper() of a date YYYYMMDD
ExpStr(d) ==
    LET yy == (d \div 10000) % 100
        mm == (d \div 100) % 100
    IN  (IF yy < 10 THEN "0" ELSE "") \o ToString(yy) \o MonthAbbr[mm]

strangle_build_option_symbol(index, expiry, strike, option_type) ==
    [underlying |-> index, expiry |-> ExpStr(expiry), strike |-> strike,
     option_type |-> option_type]

\* the payload of strangle_strategy.place_order
strangle_order(symbol, qty, side) ==
    [symbol |-> symbol, qty |-> qty,
     side |-> IF side = "BUY" THEN 1 ELSE -1, orderTag |-> ""]

----------------------------------------------------------------------------
(* strangle_strategy.py: main, run_strategy *)

\* main that calls run_strategy whatever the profile response was
StrangleMain_mut_no_check ==
    /\ pc = "s_main"
    /\ \/ \E profile \in ProfileResponses :
             /\ proc' = [proc EXCEPT !.profile = profile.s]
             /\ pc' = "s_loop"
             /\ UNCHANGED raised
       \/ /\ proc' = [proc EXCEPT !.profile = "raise"]
          /\ pc' = "crashed"
          /\ raised' = "get_profile"
    /\ run' = NoRun
    /\ UNCHANGED <<script, now, book, orders, nifty_vars, client, socket,
                   driver, replaced, in_call>>

\* main: get_profile, then run_strategy if profile.get('s') == 'ok'
StrangleMain ==
    /\ pc = "s_main"
    /\ \/ \E profile \in ProfileResponses :
             /\ proc' = [proc EXCEPT !.profile = profile.s]
             /\ pc' = IF profile.s = "ok" THEN "s_loop" ELSE "done"
             /\ UNCHANGED raised
       \/ /\ proc' = [proc EXCEPT !.profile = "raise"]
          /\ pc' = "crashed"
          /\ raised' = "get_profile"
    /\ run' = NoRun
    /\ UNCHANGED <<script, now, book, orders, nifty_vars, client, socket,
                   driver, replaced, in_call>>

\* top of the loop: the clock is read once; the entry test
StrangleTick ==
    /\ pc = "s_loop"
    /\ IF ~run.entry_done /\ TimeLE(STRANGLE_ENTRY_TIME, now.time)
       THEN /\ run' = [run EXCEPT !.now = now.time,
                                  !.entry_calls = @ + 1]
            /\ pc' = "s_entry"
       ELSE /\ run' = [run EXCEPT !.now = now.time]
            /\ pc' = "s_exit_check"
    /\ UNCHANGED <<script, now, raised, book, orders, nifty_vars,
                   stream_vars>>

\* execute_strangle_entry that goes on to the strikes whatever get_ltp
\* returned
StrangleEntryQuote_mut_no_check ==
    /\ pc = "s_entry"
    /\ \/ \E response \in QuoteResponses :
             LET ltp == get_ltp(response)
                 atm_strike == get_atm_strike(ltp.v, STRIKE_BASE)
             IN  /\ run' = [run EXCEPT !.atm_strike = atm_strike,
                                       !.ce_strike = atm_strike + 100,
                                       !.pe_strike = atm_strike + 100]
                 /\ pc' = "s_expiry"
                 /\ UNCHANGED raised
       \/ /\ pc' = "crashed"
          /\ raised' = "get_ltp"
          /\ UNCHANGED run
    /\ UNCHANGED <<script, now, book, orders, nifty_vars, stream_vars>>

\* execute_strangle_entry: get_ltp and the strikes; without a last price it
\* returns None, run_strategy sets entry_done and breaks
StrangleEntryQuote ==
    /\ pc = "s_entry"
    /\ \/ \E response \in QuoteResponses :
             LET ltp == get_ltp(response)
                 atm_strike == get_atm_strike(ltp.v, STRIKE_BASE)
             IN  /\ IF Falsy(ltp)
                    THEN /\ run' = [run EXCEPT !.positions = NoPositions,
                                               !.entry_done = TRUE]
                         /\ pc' = "done"
                    ELSE /\ run' = [run EXCEPT !.atm_strike = atm_strike,
                                               !.ce_strike = atm_strike + 100,
                                               !.pe_strike = atm_strike + 100]
                         /\ pc' = "s_expiry"
                 /\ UNCHANGED raised
       \/ /\ pc' = "crashed"
          /\ raised' = "get_ltp"
          /\ UNCHANGED run
    /\ UNCHANGED <<script, now, book, orders, nifty_vars, stream_vars>>

\* execute_strangle_entry: get_nearest_expiry and the two symbols; without
\* an expiry it returns None; a date that is not %Y%m%d makes strptime raise
StrangleEntryExpiry ==
    /\ pc = "s_expiry"
    /\ \/ \E response \in OptionChainResponses :
             LET expiry == get_nearest_expiry(response)
             IN  IF expiry.none
                 THEN /\ run' = [run EXCEPT !.positions = NoPositions,
                                            !.entry_done = TRUE]
                      /\ pc' = "done"
                      /\ UNCHANGED raised
                 ELSE IF response.format # "%Y%m%d"
                 THEN /\ pc' = "crashed"
                      /\ raised' = "build_option_symbol"
                      /\ UNCHANGED run
                 ELSE /\ run' = [run EXCEPT
                                   !.ce_symbol =
                                      strangle_build_option_symbol(
                                         "NIFTY", expiry.v, run.ce_strike, "CE"),
                                   !.pe_symbol =
                                      strangle_build_option_symbol(
                                         "NIFTY", expiry.v, run.pe_strike, "PE")]
                      /\ pc' = "s_sell_ce"
                      /\ UNCHANGED raised
       \/ /\ pc' = "crashed"
          /\ raised' = "get_nearest_expiry"
          /\ UNCHANGED run
    /\ UNCHANGED <<script, now, book, orders, nifty_vars, stream_vars>>

\* ce_order = place_order(fyers, ce_symbol, quantity, "SELL")
StrangleSellCe(outcome) ==
    /\ pc = "s_sell_ce"
    /\ LET order == strangle_order(run.ce_symbol, QUANTITY, "SELL")
           call == OrderCall(order, "execute_strangle_entry", outcome)
       IN  /\ orders' = Append(orders, call)
           /\ book' = IF outcome = "ok"
                      THEN Fill(book, order.symbol, order.qty, order.side)
                      ELSE book
           /\ IF outcome = "raise"
              THEN /\ pc' = "crashed"
                   /\ raised' = "place_order"
                   /\ UNCHANGED run
              ELSE /\ run' = [run EXCEPT !.ce_order =
                                           [s |-> outcome, id |-> call.id]]
                   /\ pc' = "s_sell_pe"
                   /\ UNCHANGED raised
    /\ UNCHANGED <<script, now, nifty_vars, stream_vars>>

\* StrangleSellPe without run_strategy's "entry_done = True"
StrangleSellPe_mut_no_flag(outcome) ==
    /\ pc = "s_sell_pe"
    /\ LET order == strangle_order(run.pe_symbol, QUANTITY, "SELL")
           call == OrderCall(order, "execute_strangle_entry", outcome)
       IN  /\ orders' = Append(orders, call)
           /\ book' = IF outcome = "ok"
                      THEN Fill(book, order.symbol, order.qty, order.side)
                      ELSE book
           /\ IF outcome = "raise"
              THEN /\ pc' = "crashed"
                   /\ raised' = "place_order"
                   /\ UNCHANGED run
              ELSE /\ run' = [run EXCEPT
                                !.positions =
                                   [is_none |-> FALSE,
                                    ce_symbol |-> run.ce_symbol,
                                    pe_symbol |-> run.pe_symbol,
                                    ce_strike |-> run.ce_strike,
                                    pe_strike |-> run.pe_strike,
                                    quantity |-> QUANTITY,
                                    ce_order_id |->
                                       IF run.ce_order.s = "ok"
                                       THEN run.ce_order.id ELSE 0,
                                    pe_order_id |->
                                       IF outcome = "ok" THEN call.id ELSE 0]]
                   /\ pc' = "s_exit_check"
                   /\ UNCHANGED raised
    /\ UNCHANGED <<script, now, nifty_vars, stream_vars>>

\* pe_order = place_order(fyers, pe_symbol, quantity, "SELL"), whatever the
\* CE response was; the positions dict is returned (an order id of 0 stands
\* for None), and run_strategy sets entry_done
StrangleSellPe(outcome) ==
    /\ pc = "s_sell_pe"
    /\ LET order == strangle_order(run.pe_symbol, QUANTITY, "SELL")
           call == OrderCall(order, "execute_strangle_entry", outcome)
       IN  /\ orders' = Append(orders, call)
           /\ book' = IF outcome = "ok"
                      THEN Fill(book, order.symbol, order.qty, order.side)
                      ELSE book
           /\ IF outcome = "raise"
              THEN /\ pc' = "crashed"
                   /\ raised' = "place_order"
                   /\ UNCHANGED run
              ELSE /\ run' = [run EXCEPT
                                !.positions =
                                   [is_none |-> FALSE,
                                    ce_symbol |-> run.ce_symbol,
                                    pe_symbol |-> run.pe_symbol,
                                    ce_strike |-> run.ce_strike,
                                    pe_strike |-> run.pe_strike,
                                    quantity |-> QUANTITY,
                                    ce_order_id |->
                                       IF run.ce_order.s = "ok"
                                       THEN run.ce_order.id ELSE 0,
                                    pe_order_id |->
                                       IF outcome = "ok" THEN call.id ELSE 0],
                                !.entry_done = TRUE]
                   /\ pc' = "s_exit_check"
                   /\ UNCHANGED raised
    /\ UNCHANGED <<script, now, nifty_vars, stream_vars>>

\* the exit test, on the clock value read at the top of the loop
StrangleExitCheck ==
    /\ pc = "s_exit_check"
    /\ pc' = IF /\ run.entry_done /\ ~run.exit_done
                /\ TimeLE(STRANGLE_EXIT_TIME, run.now)
             THEN IF ~run.positions.is_none THEN "s_buy_ce" ELSE "done"
             ELSE "s_sleep"
    /\ UNCHANGED <<script, now, raised, run, book, orders, nifty_vars,
                   stream_vars>>

\* execute_strangle_exit: ce_exit = place_order(..., "BUY")
StrangleBuyCe(outcome) ==
    /\ pc = "s_buy_ce"
    /\ LET order == strangle_order(run.positions.ce_symbol,
                                   run.positions.quantity, "BUY")
       IN  /\ orders' = Append(orders,
                               OrderCall(order, "execute_strangle_exit", outcome))
           /\ book' = IF outcome = "ok"
                      THEN Fill(book, order.symbol, order.qty, order.side)
                      ELSE book
    /\ IF outcome = "raise"
       THEN pc' = "crashed" /\ raised' = "place_order"
       ELSE pc' = "s_buy_pe" /\ UNCHANGED raised
    /\ UNCHANGED <<script, now, run, nifty_vars, stream_vars>>

\* the second BUY after which run_strategy does not break but sleeps on
StrangleBuyPe_mut_no_break(outcome) ==
    /\ pc = "s_buy_pe"
    /\ LET order == strangle_order(run.positions.pe_symbol,
                                   run.positions.quantity, "BUY")
       IN  /\ orders' = Append(orders,
                               OrderCall(order, "execute_strangle_exit", outcome))
           /\ book' = IF outcome = "ok"
                      THEN Fill(book, order.symbol, order.qty, order.side)
                      ELSE book
    /\ IF outcome = "raise"
       THEN pc' = "crashed" /\ raised' = "place_order" /\ UNCHANGED run
       ELSE /\ run' = [run EXCEPT !.exit_done = TRUE]
            /\ pc' = "s_sleep"
            /\ UNCHANGED raised
    /\ UNCHANGED <<script, now, nifty_vars, stream_vars>>

\* execute_strangle_exit: pe_exit = place_order(..., "BUY"); it returns
\* True, run_strategy sets exit_done and breaks
StrangleBuyPe(outcome) ==
    /\ pc = "s_buy_pe"
    /\ LET order == strangle_order(run.positions.pe_symbol,
                                   run.positions.quantity, "BUY")
       IN  /\ orders' = Append(orders,
                               OrderCall(order, "execute_strangle_exit", outcome))
           /\ book' = IF outcome = "ok"
                      THEN Fill(book, order.symbol, order.qty, order.side)
                      ELSE book
    /\ IF outcome = "raise"
       THEN pc' = "crashed" /\ raised' = "place_order" /\ UNCHANGED run
       ELSE /\ run' = [run EXCEPT !.exit_done = TRUE]
            /\ pc' = "done"
            /\ UNCHANGED raised
    /\ UNCHANGED <<script, now, nifty_vars, stream_vars>>

\* tm.sleep(10)
StrangleSleep ==
    /\ pc = "s_sleep"
    /\ \E u \in IF run.sleeps < MaxSleeps
                THEN SleepTimes(now.time, 10, 0)
                ELSE Overslept(now.time, 10, 0) :
          now' = [now EXCEPT !.time = u]
    /\ run' = [run EXCEPT
                 !.sleeps = IF @ < MaxSleeps THEN @ + 1 ELSE @]
    /\ pc' = "s_loop"
    /\ UNCHANGED <<script, raised, book, orders, nifty_vars, stream_vars>>

----------------------------------------------------------------------------
(* market_data_stream.py: FyersMarketDataWebSocket, and websocketTest.py: *)
(* FyersOrderWebSocket.                                                    *)
(*                                                                         *)
(* A caller makes connect(), disconnect() and create_connection() calls on *)
(* one client object, in any order; each call runs to its end before the   *)
(* next.  create_connection() gives the client a new SDK socket; a socket  *)
(* the client had before stays as it was, with its own thread, and its     *)
(* on_connect callback reads self.ws when it is invoked.  The SDK          *)
(* socket (FyersDataSocket / FyersOrderSocket) is the environment: its     *)
(* connect() and close_connection() return or raise, and its own thread    *)
(* invokes the on_connect callback whenever a connection is established,   *)
(* also after a drop.  on_open runs on that thread while the caller's      *)
(* thread goes on: its invocation (the lambda reads self.ws and the        *)
(* arguments, on_open logs) and its subscribe call are separate steps.     *)
(* Both SDK classes have close_connection, so the hasattr tests of         *)
(* disconnect() succeed.                                                   *)

\* how many connect() and disconnect() calls the caller makes, how often a
\* connection drops, and how many sockets create_connection() replaces
MaxCalls == 3
MaxDrops == 1
MaxReplaced == 1

\* the arguments a client is constructed with
MarketSymbolLists ==
    << <<"NSE:SBIN-EQ">>, <<"NSE:NIFTY50-INDEX", "NSE:RELIANCE-EQ">> >>
MarketDataTypes == <<"SymbolUpdate", "DepthUpdate">>
OrderDataTypes == {"OnOrders", "OnOrders,OnTrades,OnPositions,OnGeneral"}

\* the SDK socket before create_connection
NewSocket ==
    [state |-> "none", connects |-> 0, closes |-> 0, on_connects |-> 0,
     drops |-> 0, subscribes |-> << >>, on_open |-> << >>, raised |-> 0]

\* __init__ of either client: ws = None, _is_running = False
InitStream ==
    /\ script \in {"market_data_stream", "websocketTest"}
    /\ pc = "calls"
    /\ now = [weekday |-> 0, time |-> <<12, 0, 0, 0>>]
    /\ raised = "none"
    /\ positions = << >>
    /\ deployed_capital = 0
    /\ position_active = FALSE
    /\ basket_orders = << >>
    /\ leg = 0
    /\ order_ids = << >>
    /\ success = "none"
    /\ gate = "none"
    /\ tick = NoTick
    /\ reason = "None"
    /\ ret = "none"
    /\ net_positions = << >>
    /\ pos = 0
    /\ final_pnl = NoFinalPnl
    /\ book = << >>
    /\ orders = << >>
    /\ exit_calls = << >>
    /\ last_order_at = NoTime
    /\ funds_status = "none"
    /\ run = NoRun
    /\ client \in IF script = "market_data_stream"
                  THEN {[ws |-> "None", is_running |-> FALSE,
                         symbols |-> MarketSymbolLists[i],
                         data_type |-> MarketDataTypes[i]] : i \in 1 .. 2}
                  ELSE [ws : {"None"}, is_running : {FALSE},
                        data_types : OrderDataTypes]
    /\ socket = NewSocket
    /\ replaced = << >>
    /\ in_call = NoCall
    /\ driver = << >>
    /\ proc = NoProc

\* the call that starts now, with the client as it finds it
Calling(op) ==
    [op |-> op, ws_before |-> client.ws, running_before |-> client.is_running]

\* the entry the caller's history gets for a call that is one step
Called(op, outcome, closed, after) ==
    [op |-> op, outcome |-> outcome, closed |-> closed,
     ws_before |-> client.ws, running_before |-> client.is_running,
     running_after |-> after]

\* the entry the caller's history gets when the call in progress returns
\* or raises
Ended(outcome, closed, after) ==
    [op |-> in_call.op, outcome |-> outcome, closed |-> closed,
     ws_before |-> in_call.ws_before,
     running_before |-> in_call.running_before,
     running_after |-> after]

CreateOutcomes == {"ok", "raise_create"}
CloseOutcomes == {"ok", "raise"}

\* connect() of either client, up to ws.connect().  create_connection is
\* outside the try, so the constructor raising leaves the client as it
\* was; otherwise _is_running is set
Connect(outcome) ==
    /\ pc = "calls"
    /\ Len(driver) < MaxCalls
    /\ IF client.ws = "None" /\ outcome = "raise_create"
       THEN /\ driver' = Append(driver, Called("connect", outcome, FALSE,
                                               client.is_running))
            /\ UNCHANGED <<pc, client, socket, in_call>>
       ELSE /\ outcome = "ok"
            /\ client' = [client EXCEPT !.ws = "socket",
                                        !.is_running = TRUE]
            /\ socket' = [socket EXCEPT
                            !.state = IF @ = "none" THEN "created" ELSE @]
            /\ in_call' = Calling("connect")
            /\ pc' = "connect"
            /\ UNCHANGED driver
    /\ UNCHANGED <<script, now, raised, book, orders, run, nifty_vars,
                   proc, replaced>>

\* FyersMarketDataWebSocket.connect
MdsConnect(outcome) == script = "market_data_stream" /\ Connect(outcome)

\* FyersOrderWebSocket.connect
OwsConnect(outcome) == script = "websocketTest" /\ Connect(outcome)

\* self.ws.connect() of connect(): raising resets _is_running and is
\* re-raised to the caller
ConnectCall(outcome) ==
    /\ pc = "connect"
    /\ socket' = [socket EXCEPT
                    !.connects = @ + 1,
                    !.state = IF outcome = "ok" THEN "connecting" ELSE @]
    /\ client' = [client EXCEPT !.is_running = (outcome = "ok")]
    /\ driver' = Append(driver, Ended(outcome, FALSE, outcome = "ok"))
    /\ in_call' = NoCall
    /\ pc' = "calls"
    /\ UNCHANGED <<script, now, raised, book, orders, run, nifty_vars,
                   proc, replaced>>

\* FyersMarketDataWebSocket.connect: self.ws.connect()
MdsConnectCall(outcome) ==
    script = "market_data_stream" /\ ConnectCall(outcome)

\* FyersOrderWebSocket.connect: self.ws.connect()
OwsConnectCall(outcome) == script = "websocketTest" /\ ConnectCall(outcome)

\* create_connection() called by the caller: self.ws becomes a new SDK
\* socket, whatever the client had; _is_running is left alone
CreateConnection ==
    /\ pc = "calls"
    /\ client.ws = "None" \/ Len(replaced) < MaxReplaced
    /\ replaced' = IF client.ws = "None" THEN replaced
                   ELSE Append(replaced, socket)
    /\ socket' = [NewSocket EXCEPT !.state = "created"]
    /\ client' = [client EXCEPT !.ws = "socket"]
    /\ UNCHANGED <<script, pc, now, raised, book, orders, run, nifty_vars,
                   driver, proc, in_call>>

\* FyersMarketDataWebSocket.create_connection
MdsCreateConnection == script = "market_data_stream" /\ CreateConnection

\* FyersOrderWebSocket.create_connection
OwsCreateConnection == script = "websocketTest" /\ CreateConnection

\* disconnect() without the test of _is_running in its guard
Disconnect_mut_no_flag_check ==
    /\ pc = "calls"
    /\ Len(driver) < MaxCalls
    /\ IF client.ws # "None"
       THEN /\ client' = [client EXCEPT !.is_running = FALSE]
            /\ in_call' = Calling("disconnect")
            /\ pc' = "disconnect_close"
            /\ UNCHANGED driver
       ELSE /\ driver' = Append(driver, Called("disconnect", "none", FALSE,
                                               client.is_running))
            /\ UNCHANGED <<pc, client, in_call>>
    /\ UNCHANGED <<script, now, raised, book, orders, run, nifty_vars, proc,
                   socket, replaced>>

\* disconnect() of either client, up to close_connection(): behind the
\* guard "self.ws and self._is_running" the flag is reset; otherwise
\* nothing is done
Disconnect ==
    /\ pc = "calls"
    /\ Len(driver) < MaxCalls
    /\ IF client.ws # "None" /\ client.is_running
       THEN /\ client' = [client EXCEPT !.is_running = FALSE]
            /\ in_call' = Calling("disconnect")
            /\ pc' = "disconnect_close"
            /\ UNCHANGED driver
       ELSE /\ driver' = Append(driver, Called("disconnect", "none", FALSE,
                                               client.is_running))
            /\ UNCHANGED <<pc, client, in_call>>
    /\ UNCHANGED <<script, now, raised, book, orders, run, nifty_vars, proc,
                   socket, replaced>>

\* FyersMarketDataWebSocket.disconnect
MdsDisconnect == script = "market_data_stream" /\ Disconnect

\* FyersOrderWebSocket.disconnect
OwsDisconnect == script = "websocketTest" /\ Disconnect

\* self.ws.close_connection() of disconnect(): raising is caught, the flag
\* is reset once more and the call returns
DisconnectClosing(outcome) ==
    /\ pc = "disconnect_close"
    /\ socket' = [socket EXCEPT
                    !.closes = @ + 1,
                    !.state = IF outcome = "ok" THEN "closed" ELSE @]
    /\ client' = [client EXCEPT !.is_running = FALSE]
    /\ IF outcome = "ok"
       THEN /\ pc' = "disconnect_sleep"
            /\ UNCHANGED <<driver, in_call>>
       ELSE /\ driver' = Append(driver, Ended(outcome, TRUE, FALSE))
            /\ in_call' = NoCall
            /\ pc' = "calls"
    /\ UNCHANGED <<script, now, raised, book, orders, run, nifty_vars, proc,
                   replaced>>

\* FyersMarketDataWebSocket.disconnect: self.ws.close_connection()
MdsDisconnectClosing(outcome) ==
    script = "market_data_stream" /\ DisconnectClosing(outcome)

\* FyersOrderWebSocket.disconnect: self.ws.close_connection()
OwsDisconnectClosing(outcome) ==
    script = "websocketTest" /\ DisconnectClosing(outcome)

\* time.sleep(0.5) of disconnect(), after which the call returns
DisconnectWaiting ==
    /\ pc = "disconnect_sleep"
    /\ \E u \in SleepTimes(now.time, 0, 500000) :
          now' = [now EXCEPT !.time = u]
    /\ driver' = Append(driver, Ended("ok", TRUE, FALSE))
    /\ in_call' = NoCall
    /\ pc' = "calls"
    /\ UNCHANGED <<script, raised, book, orders, run, nifty_vars, proc,
                   client, socket, replaced>>

\* FyersMarketDataWebSocket.disconnect: time.sleep(0.5)
MdsDisconnectWaiting == script = "market_data_stream" /\ DisconnectWaiting

\* FyersOrderWebSocket.disconnect: time.sleep(0.5)
OwsDisconnectWaiting == script = "websocketTest" /\ DisconnectWaiting

\* every SDK socket the client has had, in the order of their creation: the
\* replaced ones and the present one
AllSockets == Append(replaced, socket)

\* the sockets of the client become ss
SocketsBecome(ss) ==
    /\ replaced' = SubSeq(ss, 1, Len(ss) - 1)
    /\ socket' = ss[Len(ss)]

\* what the subscribe call, and the keep_running call, of on_open does
SubscribeOutcomes == {"ok", "raise"}

\* the thread of socket k establishes the connection and invokes
\* on_connect: the lambda of create_connection reads self.ws and the
\* client's arguments and calls on_open, which logs before it subscribes.
\* The socket self.ws is at that moment is the one on_open will subscribe
\* on, whatever happens to the client meanwhile
Established(k, request) ==
    LET ss == AllSockets
    IN  /\ pc # "exited"
        /\ ss[k].state = "connecting"
        /\ ss[k].on_open = << >>
        /\ SocketsBecome(
              [ss EXCEPT ![k] =
                  [@ EXCEPT !.state = "open",
                            !.on_connects = @ + 1,
                            !.on_open = <<[target |-> Len(ss),
                                           request |-> request,
                                           subscribed |-> FALSE]>>]])
        /\ UNCHANGED <<script, pc, now, raised, book, orders, run,
                       nifty_vars, client, driver, proc, in_call>>

\* the lambda of FyersMarketDataWebSocket.create_connection, invoked by the
\* thread of the client's socket or of one it has replaced
MdsOnConnect ==
    /\ script = "market_data_stream"
    /\ \E k \in 1 .. Len(AllSockets) :
          Established(k, [symbol |-> client.symbols,
                          data_type |-> client.data_type])

\* the lambda of FyersOrderWebSocket.create_connection, invoked by the
\* thread of the client's socket or of one it has replaced
OwsOnConnect ==
    /\ script = "websocketTest"
    /\ \E k \in 1 .. Len(AllSockets) :
          Established(k, [data_type |-> client.data_types])

\* on_open that subscribes on a socket's first connection only
Subscribed_mut_first_only(k, outcome) ==
    LET ss == AllSockets
        call == ss[k].on_open[1]
        returned ==
           [ss EXCEPT ![k] =
               IF outcome = "ok"
               THEN [@ EXCEPT !.on_open[1].subscribed = TRUE]
               ELSE [@ EXCEPT !.on_open = << >>, !.raised = @ + 1]]
    IN  /\ pc # "exited"
        /\ k <= Len(ss)
        /\ ss[k].on_open # << >>
        /\ ~call.subscribed
        /\ SocketsBecome(
              [returned EXCEPT ![call.target] =
                  [@ EXCEPT !.subscribes =
                               IF @ = << >> THEN Append(@, call.request)
                               ELSE @]])
        /\ UNCHANGED <<script, pc, now, raised, book, orders, run,
                       nifty_vars, client, driver, proc, in_call>>

\* on_open on the thread of socket k, after its log lines: the subscribe
\* call on the socket it was given; if it raises, the exception is logged
\* and raised again into the SDK's thread
Subscribed(k, outcome) ==
    LET ss == AllSockets
        call == ss[k].on_open[1]
        returned ==
           [ss EXCEPT ![k] =
               IF outcome = "ok"
               THEN [@ EXCEPT !.on_open[1].subscribed = TRUE]
               ELSE [@ EXCEPT !.on_open = << >>, !.raised = @ + 1]]
    IN  /\ pc # "exited"
        /\ k <= Len(ss)
        /\ ss[k].on_open # << >>
        /\ ~call.subscribed
        /\ SocketsBecome(
              [returned EXCEPT ![call.target] =
                  [@ EXCEPT !.subscribes = Append(@, call.request)]])
        /\ UNCHANGED <<script, pc, now, raised, book, orders, run,
                       nifty_vars, client, driver, proc, in_call>>

\* on_open on the thread of socket k, after subscribe: its log lines and
\* ws_instance.keep_running(), after which on_open returns, or logs and
\* raises again what keep_running raised
KeptRunning(k, outcome) ==
    LET ss == AllSockets
    IN  /\ pc # "exited"
        /\ k <= Len(ss)
        /\ ss[k].on_open # << >>
        /\ ss[k].on_open[1].subscribed
        /\ SocketsBecome(
              [ss EXCEPT ![k] =
                  [@ EXCEPT !.on_open = << >>,
                            !.raised = IF outcome = "ok" THEN @
                                       ELSE @ + 1]])
        /\ UNCHANGED <<script, pc, now, raised, book, orders, run,
                       nifty_vars, client, driver, proc, in_call>>

\* market_data_stream.on_open, on the thread that invoked it:
\* ws_instance.subscribe(symbol=symbols, data_type=data_type), then
\* ws_instance.keep_running()
MdsOnOpen(outcome) ==
    /\ script = "market_data_stream"
    /\ \E k \in 1 .. Len(AllSockets) :
          Subscribed(k, outcome) \/ KeptRunning(k, outcome)

\* websocketTest.on_open, on the thread that invoked it:
\* ws_instance.subscribe(data_type=data_types), then
\* ws_instance.keep_running()
OwsOnOpen(outcome) ==
    /\ script = "websocketTest"
    /\ \E k \in 1 .. Len(AllSockets) :
          Subscribed(k, outcome) \/ KeptRunning(k, outcome)

\* a drop whose on_close callback resets the client's running flag
TransportDrop_mut_stops ==
    /\ pc # "exited"
    /\ socket.state = "open"
    /\ socket.drops < MaxDrops
    /\ socket' = [socket EXCEPT !.state = "connecting", !.drops = @ + 1]
    /\ client' = [client EXCEPT !.is_running = FALSE]
    /\ UNCHANGED <<script, pc, now, raised, book, orders, run, nifty_vars,
                   driver, proc, replaced, in_call>>

\* the connection drops (on_close / on_error only log); the SDK reconnects
TransportDrop ==
    /\ pc # "exited"
    /\ socket.state = "open"
    /\ socket.drops < MaxDrops
    /\ socket' = [socket EXCEPT !.state = "connecting", !.drops = @ + 1]
    /\ UNCHANGED <<script, pc, now, raised, book, orders, run, nifty_vars,
                   client, driver, proc, replaced, in_call>>

\* the connection of a replaced socket drops; the SDK reconnects
ReplacedDrop ==
    /\ pc # "exited"
    /\ \E k \in 1 .. Len(replaced) :
          /\ replaced[k].state = "open"
          /\ replaced[k].drops < MaxDrops
          /\ replaced' = [replaced EXCEPT ![k].state = "connecting",
                                          ![k].drops = @ + 1]
    /\ UNCHANGED <<script, pc, now, raised, book, orders, run, nifty_vars,
                   client, socket, driver, proc, in_call>>

\* the on_open call of socket k makes its subscribe call
OnOpenSubscribes(k) ==
    \E outcome \in SubscribeOutcomes : Subscribed(k, outcome)

NextStream ==
    \/ \E outcome \in CreateOutcomes : MdsConnect(outcome)
    \/ \E outcome \in CreateOutcomes : OwsConnect(outcome)
    \/ \E outcome \in CloseOutcomes : MdsConnectCall(outcome)
    \/ \E outcome \in CloseOutcomes : OwsConnectCall(outcome)
    \/ MdsDisconnect
    \/ OwsDisconnect
    \/ \E outcome \in CloseOutcomes : MdsDisconnectClosing(outcome)
    \/ \E outcome \in CloseOutcomes : OwsDisconnectClosing(outcome)
    \/ MdsDisconnectWaiting
    \/ OwsDisconnectWaiting
    \/ MdsCreateConnection
    \/ OwsCreateConnection
    \/ MdsOnConnect
    \/ OwsOnConnect
    \/ \E outcome \in SubscribeOutcomes : MdsOnOpen(outcome)
    \/ \E outcome \in SubscribeOutcomes : OwsOnOpen(outcome)
    \/ TransportDrop
    \/ ReplacedDrop

SpecStream == InitStream /\ [][NextStream]_vars

\* the SDK's thread of a socket goes on running: an on_open call it has
\* begun comes to its subscribe call
SpecStreamLive ==
    SpecStream
       /\ \A k \in 1 .. MaxReplaced + 1 : WF_vars(OnOpenSubscribes(k))

----------------------------------------------------------------------------
(* main() of market_data_stream.py, of websocketTest.py and of             *)
(* nifty_options_strategy.py, run as a process.                            *)
(*                                                                         *)
(* The environment is the two files main() reads (config.yaml and          *)
(* auth_tokens.json), the SDK, and the signals SIGINT and SIGTERM, which   *)
(* may be delivered between any two steps.  Python runs a signal handler   *)
(* in the main thread, on top of whatever the main thread was executing:   *)
(* proc.frames is the stack of the handler invocations in progress, the    *)
(* last one being the one that runs; main() and the invocations below it   *)
(* are suspended.  sys.exit(0) raises SystemExit, which neither            *)
(* "except Exception" nor "except KeyboardInterrupt" catches: it unwinds   *)
(* every frame, main's finally clause runs, and the process exits with     *)
(* status 0.  An exception that leaves main() ends the process with        *)
(* status 1; a process killed by a signal, or ended by a                   *)
(* KeyboardInterrupt nothing catches, has the status 128 + the signal's    *)
(* number.  main() and the handler are taken statement by statement.       *)

\* how many signals are delivered, and how often the keep-alive loop runs
MaxSignals == 2
MaxIterations == 2

\* what the process finds in config.yaml and in auth_tokens.json
FileStates == {"ok", "missing", "no_key"}

\* the exit status of the process: sys.exit(0) or main() returning, an
\* exception leaving main(), death by SIGINT (2) and by SIGTERM (15)
ExitStatus == [ok |-> 0, exception |-> 1, sigint |-> 130, sigterm |-> 143]

\* wm.create_top_n_by_volume(10)
create_top_n_by_volume ==
    LET top_stocks == << "RELIANCE", "TCS", "HDFCBANK", "INFY", "ICICIBANK",
                         "HINDUNILVR", "ITC", "SBIN", "BHARTIARTL",
                         "BAJFINANCE" >>
    IN  [i \in 1 .. 10 |-> "NSE:" \o top_stocks[i] \o "-EQ"]

InitMain ==
    /\ script \in {"market_data_stream", "websocketTest",
                   "nifty_options_strategy"}
    /\ pc = IF script = "nifty_options_strategy" THEN "o_load" ELSE "m_start"
    /\ now = [weekday |-> 0, time |-> <<12, 0, 0, 0>>]
    /\ raised = "none"
    /\ positions = << >>
    /\ deployed_capital = 0
    /\ position_active = FALSE
    /\ basket_orders = << >>
    /\ leg = 0
    /\ order_ids = << >>
    /\ success = "none"
    /\ gate = "none"
    /\ tick = NoTick
    /\ reason = "None"
    /\ ret = "none"
    /\ net_positions = << >>
    /\ pos = 0
    /\ final_pnl = NoFinalPnl
    /\ book = << >>
    /\ orders = << >>
    /\ exit_calls = << >>
    /\ last_order_at = NoTime
    /\ funds_status = "none"
    /\ run = NoRun
    /\ client = NoClient
    /\ socket = NewSocket
    /\ replaced = << >>
    /\ in_call = NoCall
    /\ driver = << >>
    /\ \E c \in FileStates, t \in FileStates :
          proc = [config |-> c, token |-> t, installed |-> {},
                  ws_manager |-> FALSE, frames |-> << >>, signals |-> << >>,
                  iterations |-> 0, after |-> "none", profile_calls |-> 0,
                  profile |-> "none",
                  exit_code |-> -1]

\* where the main thread is: in the innermost handler invocation, or in main
Cur == IF proc.frames = << >> THEN pc ELSE proc.frames[Len(proc.frames)]

\* the main thread moves on to p, the process record becoming pr
Moved(p, pr) ==
    IF pr.frames = << >>
    THEN pc' = p /\ proc' = pr
    ELSE pc' = pc /\ proc' = [pr EXCEPT !.frames[Len(pr.frames)] = p]

\* the process ends with the given status
Exited(code) ==
    /\ pc' = "exited"
    /\ proc' = [proc EXCEPT !.frames = << >>, !.exit_code = code]

\* where disconnect() returns to: the handler's sys.exit(0), or the end of
\* main's except clause ("raise", or the clause is left), which the
\* finally clause follows
Returned == IF proc.frames = << >> THEN "m_except_end" ELSE "h_exit"

\* the statements of a streaming main inside its try block, connect()
\* included
TryBody ==
    {"m_config", "m_token", "m_client_id", "m_construct", "m_install_int",
     "m_install_term", "m_connect", "m_flag", "m_ws_connect",
     "m_connect_except", "m_sleep", "m_verify", "m_loop"}

\* SIGINT or SIGTERM is delivered.  With the handler installed for it, the
\* handler is invoked on top of the running code.  Otherwise the default
\* disposition applies: SIGTERM kills the process, whatever it was
\* executing, a handler invocation included; SIGINT raises
\* KeyboardInterrupt where the main thread is.  In the try block of a
\* streaming main "except KeyboardInterrupt" catches it; in an except
\* clause it leaves the clause and the finally clause runs before it ends
\* the process; before the try, in the finally clause and anywhere in
\* nifty_options_strategy.main nothing catches it
Signal(sig) ==
    /\ pc # "exited"
    /\ Len(proc.signals) < MaxSignals
    /\ LET delivered == [proc EXCEPT !.signals =
                           Append(@, [sig |-> sig,
                                      handled |-> sig \in proc.installed,
                                      running |->
                                        (client.is_running /\
                                         socket.state \in {"connecting",
                                                           "open"}),
                                      iterations |-> proc.iterations])]
           ended == [delivered EXCEPT !.frames = << >>]
       IN  IF sig \in proc.installed
           THEN /\ proc' = [delivered EXCEPT !.frames = Append(@, "h_enter")]
                /\ UNCHANGED pc
           ELSE IF sig = "SIGTERM"
           THEN /\ pc' = "exited"
                /\ proc' = [ended EXCEPT !.exit_code = ExitStatus.sigterm]
           ELSE IF \/ script = "nifty_options_strategy"
                   \/ pc \in {"m_start", "m_finally"}
           THEN /\ pc' = "exited"
                /\ proc' = [ended EXCEPT !.exit_code = ExitStatus.sigint]
           ELSE IF pc \in TryBody
           THEN /\ pc' = "m_kbd"
                /\ proc' = [delivered EXCEPT !.after = "return"]
           ELSE /\ pc' = "m_finally"
                /\ proc' = [delivered EXCEPT !.after = "interrupt"]
    /\ UNCHANGED <<script, now, raised, book, orders, run, nifty_vars,
                   client, socket, driver, replaced, in_call>>

\* SignalHandler._handler / WebSocketSignalHandler._signal_handler: the
\* log lines, up to the call of self.ws_manager.disconnect()
HandlerEnter ==
    /\ proc.frames # << >>
    /\ Cur = "h_enter"
    /\ Moved("d_guard", proc)
    /\ UNCHANGED <<script, now, raised, book, orders, run, nifty_vars,
                   client, socket, driver, replaced, in_call>>

\* disconnect(): "if self.ws and self._is_running", and the log line
\* inside the try
DisconnectGuard ==
    /\ Cur = "d_guard"
    /\ IF client.ws # "None" /\ client.is_running
       THEN Moved("d_flag", proc)
       ELSE Moved(Returned, proc)
    /\ UNCHANGED <<script, now, raised, book, orders, run, nifty_vars,
                   client, socket, driver, replaced, in_call>>

\* disconnect(): self._is_running = False, and the hasattr test
DisconnectFlag ==
    /\ Cur = "d_flag"
    /\ client' = [client EXCEPT !.is_running = FALSE]
    /\ Moved("d_close", proc)
    /\ UNCHANGED <<script, now, raised, book, orders, run, nifty_vars,
                   socket, driver, replaced, in_call>>

\* disconnect(): self.ws.close_connection(); if it raises, the except
\* clause logs, resets the flag again and disconnect() returns
DisconnectClose(outcome) ==
    /\ Cur = "d_close"
    /\ socket' = [socket EXCEPT
                    !.closes = @ + 1,
                    !.state = IF outcome = "ok" THEN "closed" ELSE @]
    /\ client' = [client EXCEPT !.is_running = FALSE]
    /\ Moved(IF outcome = "ok" THEN "d_sleep" ELSE Returned, proc)
    /\ UNCHANGED <<script, now, raised, book, orders, run, nifty_vars,
                   driver, replaced, in_call>>

\* disconnect(): time.sleep(0.5) and the last log line
DisconnectSleep ==
    /\ Cur = "d_sleep"
    /\ \E u \in SleepTimes(now.time, 0, 500000) :
          now' = [now EXCEPT !.time = u]
    /\ Moved(Returned, proc)
    /\ UNCHANGED <<script, raised, book, orders, run, nifty_vars, client,
                   socket, driver, replaced, in_call>>

\* the handler, after disconnect() returned: the log line and sys.exit(0).
\* SystemExit leaves every handler invocation and what main was executing,
\* an except clause included; main's finally clause runs, unless main was
\* in it already
HandlerExit ==
    /\ proc.frames # << >>
    /\ Cur = "h_exit"
    /\ IF pc = "m_finally"
       THEN Exited(ExitStatus.ok)
       ELSE /\ pc' = "m_finally"
            /\ proc' = [proc EXCEPT !.frames = << >>, !.after = "exit"]
    /\ UNCHANGED <<script, now, raised, book, orders, run, nifty_vars,
                   client, socket, driver, replaced, in_call>>

\* main's finally clause: the log lines, after which main returns, or the
\* exception or the exit in progress ends the process
MainFinally ==
    /\ proc.frames = << >>
    /\ pc = "m_finally"
    /\ Exited(CASE proc.after = "raise" -> ExitStatus.exception
                [] proc.after = "interrupt" -> ExitStatus.sigint
                [] OTHER -> ExitStatus.ok)
    /\ UNCHANGED <<script, now, raised, book, orders, run, nifty_vars,
                   client, socket, driver, replaced, in_call>>

\* main's except clauses: the log line and "if ws_manager:
\* ws_manager.disconnect()"; then "except Exception" raises again and
\* "except KeyboardInterrupt" is left, and the finally clause begins
MainExcept ==
    /\ proc.frames = << >>
    /\ pc \in {"m_kbd", "m_except", "m_except_end"}
    /\ pc' = IF pc = "m_except_end" THEN "m_finally"
             ELSE IF proc.ws_manager THEN "d_guard" ELSE "m_except_end"
    /\ UNCHANGED <<script, now, raised, book, orders, run, nifty_vars,
                   client, socket, driver, replaced, in_call, proc>>

\* an exception raised in the try block of a streaming main reaches
\* "except Exception"
MainRaised(site) ==
    /\ raised' = site
    /\ pc' = "m_except"
    /\ proc' = [proc EXCEPT !.after = "raise"]

\* streaming main: "ws_manager = None" before the try, then load_config(),
\* load_access_token() and config["fyers"]["client_id"]
MainLoad ==
    /\ proc.frames = << >>
    /\ pc \in {"m_start", "m_config", "m_token", "m_client_id"}
    /\ CASE pc = "m_start" ->
              pc' = "m_config" /\ UNCHANGED <<proc, raised>>
         [] pc = "m_config" ->
              IF proc.config = "missing"
              THEN MainRaised("load_config")
              ELSE pc' = "m_token" /\ UNCHANGED <<proc, raised>>
         [] pc = "m_token" ->
              IF proc.token # "ok"
              THEN MainRaised("load_access_token")
              ELSE pc' = "m_client_id" /\ UNCHANGED <<proc, raised>>
         [] pc = "m_client_id" ->
              IF proc.config # "ok"
              THEN MainRaised("client_id")
              ELSE pc' = "m_construct" /\ UNCHANGED <<proc, raised>>
    /\ UNCHANGED <<script, now, book, orders, run, nifty_vars, client,
                   socket, driver, replaced, in_call>>

\* streaming main: the client is constructed (ws = None, _is_running =
\* False) and assigned to ws_manager
MainConstruct ==
    /\ proc.frames = << >>
    /\ pc = "m_construct"
    /\ client' = IF script = "market_data_stream"
                 THEN [ws |-> "None", is_running |-> FALSE,
                       symbols |-> create_top_n_by_volume,
                       data_type |-> "SymbolUpdate"]
                 ELSE [ws |-> "None", is_running |-> FALSE,
                       data_types |->
                         "OnOrders,OnTrades,OnPositions,OnGeneral"]
    /\ proc' = [proc EXCEPT !.ws_manager = TRUE]
    /\ pc' = "m_install_int"
    /\ UNCHANGED <<script, now, raised, book, orders, run, nifty_vars,
                   socket, driver, replaced, in_call>>

\* the signal handler object: signal.signal(signal.SIGINT, ...), then
\* signal.signal(signal.SIGTERM, ...)
MainInstall ==
    /\ proc.frames = << >>
    /\ pc \in {"m_install_int", "m_install_term"}
    /\ IF pc = "m_install_int"
       THEN /\ proc' = [proc EXCEPT !.installed = @ \cup {"SIGINT"}]
            /\ pc' = "m_install_term"
       ELSE /\ proc' = [proc EXCEPT !.installed = @ \cup {"SIGTERM"}]
            /\ pc' = "m_connect"
    /\ UNCHANGED <<script, now, raised, book, orders, run, nifty_vars,
                   client, socket, driver, replaced, in_call>>

\* ws_manager.connect(), statement by statement: create_connection()
\* (outside the try of connect), self._is_running = True,
\* self.ws.connect(), and the except clause that resets the flag and
\* raises again
MainConnect(outcome) ==
    /\ proc.frames = << >>
    /\ pc \in {"m_connect", "m_flag", "m_ws_connect", "m_connect_except"}
    /\ CASE pc = "m_connect" ->
              IF outcome = "raise"
              THEN MainRaised("create_connection")
                   /\ UNCHANGED <<client, socket>>
              ELSE /\ client' = [client EXCEPT !.ws = "socket"]
                   /\ socket' = [socket EXCEPT !.state = "created"]
                   /\ pc' = "m_flag"
                   /\ UNCHANGED <<proc, raised>>
         [] pc = "m_flag" ->
              /\ outcome = "ok"
              /\ client' = [client EXCEPT !.is_running = TRUE]
              /\ pc' = "m_ws_connect"
              /\ UNCHANGED <<socket, proc, raised>>
         [] pc = "m_ws_connect" ->
              /\ socket' = [socket EXCEPT
                              !.connects = @ + 1,
                              !.state = IF outcome = "ok" THEN "connecting"
                                        ELSE @]
              /\ pc' = IF outcome = "ok" THEN "m_sleep"
                       ELSE "m_connect_except"
              /\ UNCHANGED <<client, proc, raised>>
         [] pc = "m_connect_except" ->
              /\ outcome = "raise"
              /\ client' = [client EXCEPT !.is_running = FALSE]
              /\ MainRaised("connect")
              /\ UNCHANGED socket
    /\ UNCHANGED <<script, now, book, orders, run, nifty_vars, driver,
                   replaced, in_call>>

\* time.sleep(1) after connect(); websocketTest.main then calls
\* ws_manager.is_connected(), whose self.ws.is_connected() may raise
MainVerify(outcome) ==
    /\ proc.frames = << >>
    /\ pc \in {"m_sleep", "m_verify"}
    /\ IF pc = "m_sleep"
       THEN /\ outcome = "ok"
            /\ \E u \in SleepTimes(now.time, 1, 0) :
                  now' = [now EXCEPT !.time = u]
            /\ pc' = IF script = "websocketTest" THEN "m_verify" ELSE "m_loop"
            /\ UNCHANGED <<proc, raised>>
       ELSE /\ IF outcome = "ok"
               THEN pc' = "m_loop" /\ UNCHANGED <<proc, raised>>
               ELSE MainRaised("is_connected")
            /\ UNCHANGED now
    /\ UNCHANGED <<script, book, orders, run, nifty_vars, client, socket,
                   driver, replaced, in_call>>

\* the keep-alive loop: "while ws_manager.is_running: time.sleep(1)"; after
\* the loop the finally clause runs and main returns
MainLoop ==
    /\ proc.frames = << >>
    /\ pc = "m_loop"
    /\ IF client.is_running
       THEN /\ proc.iterations < MaxIterations
            /\ proc' = [proc EXCEPT !.iterations = @ + 1]
            /\ \E u \in SleepTimes(now.time, 1, 0) :
                  now' = [now EXCEPT !.time = u]
            /\ UNCHANGED pc
       ELSE /\ pc' = "m_finally"
            /\ proc' = [proc EXCEPT !.after = "return"]
            /\ UNCHANGED now
    /\ UNCHANGED <<script, raised, book, orders, run, nifty_vars, client,
                   socket, driver, replaced, in_call>>

\* nifty_options_strategy.main: the try around load_config() and
\* load_access_token(), whose except clause prints and returns;
\* config["fyers"]["client_id"] is outside any try; the try around
\* get_fyers_client(), which constructs the client or raises, and whose
\* except clause prints and returns
OptionsLoad(outcome) ==
    /\ pc \in {"o_load", "o_failed", "o_client_id", "o_client",
               "o_client_failed"}
    /\ CASE pc = "o_load" ->
              /\ outcome = "ok"
              /\ IF proc.config = "missing" \/ proc.token # "ok"
                 THEN pc' = "o_failed" /\ raised' = "load" /\ UNCHANGED proc
                 ELSE pc' = "o_client_id" /\ UNCHANGED <<proc, raised>>
         [] pc = "o_failed" ->
              outcome = "ok" /\ Exited(ExitStatus.ok) /\ UNCHANGED raised
         [] pc = "o_client_id" ->
              /\ outcome = "ok"
              /\ IF proc.config # "ok"
                 THEN Exited(ExitStatus.exception) /\ raised' = "client_id"
                 ELSE pc' = "o_client" /\ UNCHANGED <<proc, raised>>
         [] pc = "o_client" ->
              IF outcome = "raise"
              THEN /\ pc' = "o_client_failed"
                   /\ raised' = "get_fyers_client"
                   /\ UNCHANGED proc
              ELSE pc' = "o_profile" /\ UNCHANGED <<proc, raised>>
         [] pc = "o_client_failed" ->
              outcome = "raise" /\ Exited(ExitStatus.ok) /\ UNCHANGED raised
    /\ UNCHANGED <<script, now, book, orders, run, nifty_vars, client,
                   socket, driver, replaced, in_call>>

\* nifty_options_strategy.main: fyers.get_profile() inside a try; then the
\* response is printed and not examined, the strategy object is
\* constructed and main returns, or the except clause prints and returns
OptionsProfile(outcome) ==
    /\ pc \in {"o_profile", "o_report"}
    /\ IF pc = "o_profile"
       THEN /\ pc' = "o_report"
            /\ proc' = [proc EXCEPT !.profile_calls = @ + 1,
                                    !.profile = outcome]
            /\ raised' = IF outcome = "raise" THEN "get_profile" ELSE "none"
       ELSE /\ outcome = proc.profile
            /\ Exited(ExitStatus.ok)
            /\ UNCHANGED raised
    /\ UNCHANGED <<script, now, book, orders, run, nifty_vars, client,
                   socket, driver, replaced, in_call>>

NextMain ==
    \/ \E sig \in {"SIGINT", "SIGTERM"} : Signal(sig)
    \/ HandlerEnter
    \/ DisconnectGuard
    \/ DisconnectFlag
    \/ \E outcome \in CloseOutcomes : DisconnectClose(outcome)
    \/ DisconnectSleep
    \/ HandlerExit
    \/ MainFinally
    \/ MainExcept
    \/ MainLoad
    \/ MainConstruct
    \/ MainInstall
    \/ \E outcome \in CloseOutcomes : MainConnect(outcome)
    \/ \E outcome \in CloseOutcomes : MainVerify(outcome)
    \/ MainLoop
    \/ \E outcome \in CloseOutcomes : OptionsLoad(outcome)
    \/ \E outcome \in Outcomes : OptionsProfile(outcome)
    \/ MdsOnConnect
    \/ OwsOnConnect
    \/ \E outcome \in SubscribeOutcomes : MdsOnOpen(outcome)
    \/ \E outcome \in SubscribeOutcomes : OwsOnOpen(outcome)
    \/ TransportDrop

SpecMain == InitMain /\ [][NextMain]_vars

----------------------------------------------------------------------------
(* on_message of market_data_stream.py and of websocketTest.py.            *)
(*                                                                         *)
(* The SDK thread hands every message of an open connection to on_message. *)
(* A message is a dict, given by the set of its keys, or something that is *)
(* not a dict.  "numeric" tells whether the values the quote and trade     *)
(* branches format with ":.2f" and ":," are numbers; if they are not, the  *)
(* format raises inside the branch and the except clause logs the error.   *)
(* socket.handled keeps the last two messages with the branch that handled *)
(* each.                                                                   *)

\* how many messages the connection delivers
MaxMessages == 2

\* the messages of the market-data socket and of the order socket
Messages ==
    LET keys == IF script = "market_data_stream"
                THEN {"ltp", "bid", "ask", "trade_price"}
                ELSE {"code", "message", "orderNumber", "id", "tradeNumber",
                      "netQty", "qty"}
    IN  [is_dict : {TRUE}, keys : SUBSET keys,
         numeric : IF script = "market_data_stream" THEN BOOLEAN ELSE {TRUE}]
        \cup {[is_dict |-> FALSE, keys |-> {}, numeric |-> FALSE]}

\* on_message with the depth test before the quote test
mds_on_message_mut_depth_first(message) ==
    IF message.is_dict
    THEN IF "bid" \in message.keys \/ "ask" \in message.keys
         THEN [branch |-> "depth", error |-> FALSE]
         ELSE IF "ltp" \in message.keys
         THEN [branch |-> "quote", error |-> ~message.numeric]
         ELSE IF "trade_price" \in message.keys
         THEN [branch |-> "trade", error |-> ~message.numeric]
         ELSE [branch |-> "update", error |-> FALSE]
    ELSE [branch |-> "message", error |-> FALSE]

\* market_data_stream.on_message: the branch that logs the message, and
\* whether its formatting raised into the except clause
mds_on_message(message) ==
    IF message.is_dict
    THEN IF "ltp" \in message.keys
         THEN [branch |-> "quote", error |-> ~message.numeric]
         ELSE IF "bid" \in message.keys \/ "ask" \in message.keys
         THEN [branch |-> "depth", error |-> FALSE]
         ELSE IF "trade_price" \in message.keys
         THEN [branch |-> "trade", error |-> ~message.numeric]
         ELSE [branch |-> "update", error |-> FALSE]
    ELSE [branch |-> "message", error |-> FALSE]

\* on_message with the trade test before the order test
ows_on_message_mut_trade_first(message) ==
    IF message.is_dict
    THEN IF "code" \in message.keys /\ "message" \in message.keys
         THEN [branch |-> "general", error |-> FALSE]
         ELSE IF "tradeNumber" \in message.keys
         THEN [branch |-> "trade", error |-> FALSE]
         ELSE IF "orderNumber" \in message.keys \/ "id" \in message.keys
         THEN [branch |-> "order", error |-> FALSE]
         ELSE IF "netQty" \in message.keys \/ "qty" \in message.keys
         THEN [branch |-> "position", error |-> FALSE]
         ELSE [branch |-> "update", error |-> FALSE]
    ELSE [branch |-> "message", error |-> FALSE]

\* websocketTest.on_message: each test returns from the function, so the
\* first test that holds decides the branch
ows_on_message(message) ==
    IF message.is_dict
    THEN IF "code" \in message.keys /\ "message" \in message.keys
         THEN [branch |-> "general", error |-> FALSE]
         ELSE IF "orderNumber" \in message.keys \/ "id" \in message.keys
         THEN [branch |-> "order", error |-> FALSE]
         ELSE IF "tradeNumber" \in message.keys
         THEN [branch |-> "trade", error |-> FALSE]
         ELSE IF "netQty" \in message.keys \/ "qty" \in message.keys
         THEN [branch |-> "position", error |-> FALSE]
         ELSE [branch |-> "update", error |-> FALSE]
    ELSE [branch |-> "message", error |-> FALSE]

\* a streaming client whose connection is open
InitMessages ==
    /\ script \in {"market_data_stream", "websocketTest"}
    /\ pc = "streaming"
    /\ now = [weekday |-> 0, time |-> <<12, 0, 0, 0>>]
    /\ raised = "none"
    /\ positions = << >>
    /\ deployed_capital = 0
    /\ position_active = FALSE
    /\ basket_orders = << >>
    /\ leg = 0
    /\ order_ids = << >>
    /\ success = "none"
    /\ gate = "none"
    /\ tick = NoTick
    /\ reason = "None"
    /\ ret = "none"
    /\ net_positions = << >>
    /\ pos = 0
    /\ final_pnl = NoFinalPnl
    /\ book = << >>
    /\ orders = << >>
    /\ exit_calls = << >>
    /\ last_order_at = NoTime
    /\ funds_status = "none"
    /\ run = NoRun
    /\ client = [ws |-> "socket", is_running |-> TRUE]
    /\ socket = [state |-> "open", delivered |-> 0, handled |-> << >>]
    /\ replaced = << >>
    /\ in_call = NoCall
    /\ driver = << >>
    /\ proc = NoProc

\* the SDK thread calls market_data_stream.on_message
MdsOnMessage(message) ==
    /\ script = "market_data_stream"
    /\ socket.delivered < MaxMessages
    /\ socket' = [socket EXCEPT
                    !.delivered = @ + 1,
                    !.handled =
                       LET entry == [message |-> message,
                                     by |-> mds_on_message(message)]
                       IN  IF @ = << >> THEN <<entry>>
                           ELSE <<@[Len(@)], entry>>]
    /\ UNCHANGED <<script, pc, now, raised, book, orders, run, nifty_vars,
                   client, driver, proc, replaced, in_call>>

\* the SDK thread calls websocketTest.on_message
OwsOnMessage(message) ==
    /\ script = "websocketTest"
    /\ socket.delivered < MaxMessages
    /\ socket' = [socket EXCEPT
                    !.delivered = @ + 1,
                    !.handled =
                       LET entry == [message |-> message,
                                     by |-> ows_on_message(message)]
                       IN  IF @ = << >> THEN <<entry>>
                           ELSE <<@[Len(@)], entry>>]
    /\ UNCHANGED <<script, pc, now, raised, book, orders, run, nifty_vars,
                   client, driver, proc, replaced, in_call>>

NextMessages ==
    \/ \E message \in Messages : MdsOnMessage(message)
    \/ \E message \in Messages : OwsOnMessage(message)

SpecMessages == InitMessages /\ [][NextMessages]_vars

----------------------------------------------------------------------------
(* Strike selection as a function of the spot price:                       *)
(* NiftyOptionsStrategy.get_strike_configuration with calculate_atm_strike *)
(* (nifty_strategy.py) and get_atm_strike (strangle_strategy.py), called   *)
(* on one spot price up to MaxSelections times; run.results keeps what     *)
(* each call returned.                                                     *)

\* the spot prices are the integers SpotLow .. SpotLow + SpotSpan: four
\* listed strikes with everything between them, the ties included
SpotLow == 21950
SpotSpan == 200
MaxSelections == 2

InitStrikes ==
    /\ script = "strike_selection"
    /\ pc = "select"
    /\ now = [weekday |-> 0, time |-> <<12, 0, 0, 0>>]
    /\ raised = "none"
    /\ positions = << >>
    /\ deployed_capital = 0
    /\ position_active = FALSE
    /\ basket_orders = << >>
    /\ leg = 0
    /\ order_ids = << >>
    /\ success = "none"
    /\ gate = "none"
    /\ tick = NoTick
    /\ reason = "None"
    /\ ret = "none"
    /\ net_positions = << >>
    /\ pos = 0
    /\ final_pnl = NoFinalPnl
    /\ book = << >>
    /\ orders = << >>
    /\ exit_calls = << >>
    /\ last_order_at = NoTime
    /\ funds_status = "none"
    /\ \E spot_price \in SpotLow .. SpotLow + SpotSpan :
          run = [spot_price |-> spot_price, results |-> << >>]
    /\ client = NoClient
    /\ socket = NoSocket
    /\ replaced = << >>
    /\ in_call = NoCall
    /\ driver = << >>
    /\ proc = NoProc

\* strategy.get_strike_configuration(spot_price): returns strikes, atm_strike
StrikeConfiguration ==
    /\ pc = "select"
    /\ Len(run.results) < MaxSelections
    /\ run' = [run EXCEPT !.results =
                 Append(@, [fn |-> "get_strike_configuration",
                            strikes |-> get_strike_configuration(run.spot_price),
                            atm_strike |-> calculate_atm_strike(run.spot_price)])]
    /\ UNCHANGED <<script, pc, now, raised, book, orders, nifty_vars,
                   stream_vars>>

\* get_atm_strike(ltp, STRATEGY["strike_base"])
StrangleAtmStrike ==
    /\ pc = "select"
    /\ Len(run.results) < MaxSelections
    /\ run' = [run EXCEPT !.results =
                 Append(@, [fn |-> "get_atm_strike",
                            strikes |-> << >>,
                            atm_strike |-> get_atm_strike(run.spot_price,
                                                          STRIKE_BASE)])]
    /\ UNCHANGED <<script, pc, now, raised, book, orders, nifty_vars,
                   stream_vars>>

NextStrikes ==
    \/ StrikeConfiguration
    \/ StrangleAtmStrike

SpecStrikes == InitStrikes /\ [][NextStrikes]_vars

----------------------------------------------------------------------------
(* The run *)

Next ==
    \/ ClockAdvance
    \/ NiftyMain
    \/ EntryGate
    \/ EntryQuote
    \/ \E outcome \in Outcomes : EntryPlace(outcome)
    \/ EntryPace
    \/ EntryFunds
    \/ MonitorLoop
    \/ MonitorCheck
    \/ MonitorSleep
    \/ MonitorClose
    \/ ExitStart
    \/ ExitSkip
    \/ \E outcome \in Outcomes : ExitPlace(outcome)
    \/ ExitPace
    \/ ExitFinish
    \/ \E outcome \in Outcomes : PlaceTestOrder(outcome)
    \/ CeBasket
    \/ \E outcome \in Outcomes : CePlace(outcome)
    \/ StrangleMain
    \/ StrangleTick
    \/ StrangleEntryQuote
    \/ StrangleEntryExpiry
    \/ \E outcome \in Outcomes : StrangleSellCe(outcome)
    \/ \E outcome \in Outcomes : StrangleSellPe(outcome)
    \/ StrangleExitCheck
    \/ \E outcome \in Outcomes : StrangleBuyCe(outcome)
    \/ \E outcome \in Outcomes : StrangleBuyPe(outcome)
    \/ StrangleSleep

Spec == Init /\ [][Next]_vars

----------------------------------------------------------------------------
(* A run of strangle_strategy.py on its own, with progress.  The script is *)
(* one thread of straight-line code around a loop: every statement that    *)
(* is reached is executed, a broker call returns or raises, and            *)
(* tm.sleep(10) returns with the clock moved on.                           *)

InitStrangle == Init /\ script = "strangle_strategy"

NextStrangle ==
    \/ ClockAdvance
    \/ StrangleMain
    \/ StrangleTick
    \/ StrangleEntryQuote
    \/ StrangleEntryExpiry
    \/ \E outcome \in Outcomes : StrangleSellCe(outcome)
    \/ \E outcome \in Outcomes : StrangleSellPe(outcome)
    \/ StrangleExitCheck
    \/ \E outcome \in Outcomes : StrangleBuyCe(outcome)
    \/ \E outcome \in Outcomes : StrangleBuyPe(outcome)
    \/ StrangleSleep

\* the statements of the script, without the passing of time
StrangleStep ==
    \/ StrangleMain
    \/ StrangleTick
    \/ StrangleEntryQuote
    \/ StrangleEntryExpiry
    \/ \E outcome \in Outcomes : StrangleSellCe(outcome)
    \/ \E outcome \in Outcomes : StrangleSellPe(outcome)
    \/ StrangleExitCheck
    \/ \E outcome \in Outcomes : StrangleBuyCe(outcome)
    \/ \E outcome \in Outcomes : StrangleBuyPe(outcome)
    \/ StrangleSleep

SpecStrangle ==
    InitStrangle /\ [][NextStrangle]_vars /\ WF_vars(StrangleStep)

----------------------------------------------------------------------------
(* nifty_algo.py: run_scheduler.  The candle closes of the active          *)
(* timeframe come with the configuration, as "HH:MM" strings in the order  *)
(* of the day.  fetch_candles and compute_rsi inside run_strategy return   *)
(* or raise.  The clock of the scheduler is a weekday and a time of day.   *)

\* the nights the scheduler sleeps through
MaxDays == 1

\* cfg["scheduler"]["candle_closes"]
CandleCloses ==
    { << time(9, 45), time(15, 30) >>,
      << time(9, 15), time(12, 0), time(16, 0) >> }

\* the first close of the list that is after now, today; or the first
\* close of the list, tomorrow
next_candle_close(close_times, n) ==
    LET later == {k \in 1 .. Len(close_times) :
                     TimeLT(n.time, close_times[k])}
    IN  IF later # {}
        THEN [days |-> 0,
              time |-> close_times[CHOOSE k \in later :
                                      \A j \in later : k <= j]]
        ELSE [days |-> 1, time |-> close_times[1]]

InitScheduler ==
    /\ script = "nifty_algo"
    /\ pc = "a_next"
    /\ now \in [weekday : {0}, time : ClockTimes]
    /\ raised = "none"
    /\ positions = << >>
    /\ deployed_capital = 0
    /\ position_active = FALSE
    /\ basket_orders = << >>
    /\ leg = 0
    /\ order_ids = << >>
    /\ success = "none"
    /\ gate = "none"
    /\ tick = NoTick
    /\ reason = "None"
    /\ ret = "none"
    /\ net_positions = << >>
    /\ pos = 0
    /\ final_pnl = NoFinalPnl
    /\ book = << >>
    /\ orders = << >>
    /\ exit_calls = << >>
    /\ last_order_at = NoTime
    /\ funds_status = "none"
    /\ \E close_times \in CandleCloses :
          run = [close_times |-> close_times,
                 next_run |-> [days |-> 0, time |-> NoTime],
                 days |-> 0, wakeups |-> 0, calls |-> 0, failures |-> 0,
                 last |-> [time |-> NoTime, open |-> FALSE,
                           outcome |-> "none"]]
    /\ client = NoClient
    /\ socket = NoSocket
    /\ replaced = << >>
    /\ in_call = NoCall
    /\ driver = << >>
    /\ proc = NoProc

\* next_run = next_candle_close(close_times)
AlgoNext ==
    /\ pc = "a_next"
    /\ run' = [run EXCEPT
                 !.next_run = next_candle_close(run.close_times, now)]
    /\ pc' = "a_sleep"
    /\ UNCHANGED <<script, now, raised, book, orders, nifty_vars,
                   stream_vars>>

\* sleep_sec = (next_run - datetime.now()).total_seconds(), and
\* time.sleep(sleep_sec) if it is positive: the clock is at or past next_run
AlgoSleep ==
    /\ pc = "a_sleep"
    /\ run.days + run.next_run.days <= MaxDays
    /\ IF run.next_run.days > 0 \/ TimeLT(now.time, run.next_run.time)
       THEN \E u \in {run.next_run.time}
                     \cup {v \in Instants : TimeLE(run.next_run.time, v)} :
               now' = [weekday |-> (now.weekday + run.next_run.days) % 7,
                       time |-> u]
       ELSE UNCHANGED now
    /\ run' = [run EXCEPT !.days = @ + run.next_run.days]
    /\ pc' = "a_check"
    /\ UNCHANGED <<script, raised, book, orders, nifty_vars, stream_vars>>

\* if is_market_open(): on to run_strategy, else on to the pause
AlgoCheck ==
    /\ pc = "a_check"
    /\ LET open == algo_is_market_open(now)
       IN  /\ run' = [run EXCEPT
                        !.wakeups = @ + 1,
                        !.last = [time |-> now.time, open |-> open,
                                  outcome |-> "none"]]
           /\ pc' = IF open THEN "a_run" ELSE "a_pause"
    /\ UNCHANGED <<script, now, raised, book, orders, nifty_vars,
                   stream_vars>>

\* run_strategy outside any try: its exception ends run_scheduler
AlgoRun_mut_no_except(outcome) ==
    /\ pc = "a_run"
    /\ run' = [run EXCEPT
                 !.calls = @ + 1,
                 !.failures = IF outcome = "raise" THEN @ + 1 ELSE @,
                 !.last.outcome = outcome]
    /\ IF outcome = "raise"
       THEN pc' = "crashed" /\ raised' = "run_strategy"
       ELSE pc' = "a_pause" /\ UNCHANGED raised
    /\ UNCHANGED <<script, now, book, orders, nifty_vars, stream_vars>>

\* try: run_strategy(cfg, fyers); except Exception: logger.exception(...)
AlgoRun(outcome) ==
    /\ pc = "a_run"
    /\ run' = [run EXCEPT
                 !.calls = @ + 1,
                 !.failures = IF outcome = "raise" THEN @ + 1 ELSE @,
                 !.last.outcome = outcome]
    /\ pc' = "a_pause"
    /\ UNCHANGED <<script, now, raised, book, orders, nifty_vars,
                   stream_vars>>

\* time.sleep(10), and back to the top of the loop
AlgoPause ==
    /\ pc = "a_pause"
    /\ \E u \in SleepTimes(now.time, 10, 0) : now' = [now EXCEPT !.time = u]
    /\ pc' = "a_next"
    /\ UNCHANGED <<script, raised, run, book, orders, nifty_vars,
                   stream_vars>>

NextScheduler ==
    \/ ClockAdvance
    \/ AlgoNext
    \/ AlgoSleep
    \/ AlgoCheck
    \/ \E outcome \in {"ok", "raise"} : AlgoRun(outcome)
    \/ AlgoPause

SpecScheduler == InitScheduler /\ [][NextScheduler]_vars

----------------------------------------------------------------------------
(* Properties *)

\* the orders an entry routine has placed so far, in order
EntryOrders ==
    SelectSeq(orders,
              LAMBDA o : o.by \in {"execute_basket_entry", "place_ce_basket"})

\* the closing orders exit_all_positions has placed so far, in order
ExitOrders == SelectSeq(orders, LAMBDA o : o.by = "exit_all_positions")

\* the run is inside monitor_positions or an exit_all_positions it called
Monitoring ==
    pc \in {"monitor", "monitor_check", "monitor_sleep", "monitor_close",
            "exit", "exit_loop", "exit_pace"}

\* C1: basket entry stops on the first rejected leg.  The orders sent are
\* the first legs of the basket in order, nothing is sent after a leg that
\* was not accepted, and once leg k is answered with a non-"ok" status the
\* routine has returned: execute_basket_entry with False (and nothing
\* active), place_ce_basket with exactly the ids of legs 1 .. k-1.
C1_EntryStopsOnFirstRejectedLeg ==
    LET E == EntryOrders
    IN  /\ Len(E) <= Len(basket_orders)
        /\ \A i \in 1 .. Len(E) :
              /\ E[i].symbol = basket_orders[i].symbol
              /\ E[i].qty = basket_orders[i].qty
              /\ E[i].side = basket_orders[i].side
              /\ E[i].status # "ok" => i = Len(E)
        /\ \A k \in 1 .. Len(E) :
              E[k].status = "error" =>
                 /\ pc = "done"
                 /\ Len(orders) = k
                 /\ script = "nifty_strategy" =>
                       success = "False" /\ ~position_active
                 /\ script = "place_ce_basket" =>
                       order_ids = [i \in 1 .. k - 1 |-> E[i].id]

\* C1 witness: execute_basket_entry returned False on its second leg, after
\* the first was accepted
C1_Witness ==
    /\ script = "nifty_strategy"
    /\ Len(EntryOrders) = 2
    /\ EntryOrders[1].status = "ok"
    /\ EntryOrders[2].status = "error"
    /\ success = "False"

\* C2: a basket is monitored only when it is complete.  position_active
\* implies that the three legs were sent and accepted; the run is in
\* monitor_positions only after execute_basket_entry returned True; and
\* after an entry in which a leg was not accepted position_active is False
\* and no monitoring tick has run.
C2_MonitoredOnlyWhenComplete ==
    LET E == EntryOrders
    IN  /\ position_active =>
              /\ Len(E) = 3
              /\ \A i \in 1 .. 3 :
                    E[i].status = "ok" /\ E[i].symbol = basket_orders[i].symbol
        /\ Monitoring => success = "True"
        /\ tick.status # "none" => success = "True"
        /\ (\E i \in 1 .. Len(E) : E[i].status # "ok") =>
              /\ ~position_active
              /\ ~Monitoring
              /\ tick = NoTick
              /\ exit_calls = << >>

\* C2 witness: a monitoring tick is about to run on a complete basket
C2_Witness ==
    /\ pc = "monitor_check"
    /\ position_active
    /\ Len(EntryOrders) = 3

\* the entry condition as the claim states it, on the clock value n
EntryCondition(n) ==
    /\ n.weekday = 0
    /\ SecondsOfDay(n.time) >= 9 * 3600 + 45 * 60
    /\ is_market_open(n)

\* C3: should_enter_trade is true exactly on a Monday, at or after
\* ENTRY_TIME, with the market open: true at 09:45:00, false at 09:44:59.
\* main's evaluation of it enters exactly when it is true and changes no
\* strategy state.
C3_EntryGate ==
    /\ [](/\ should_enter_trade(now) = EntryCondition(now)
          /\ now = [weekday |-> 0, time |-> <<9, 45, 0, 0>>]
                => should_enter_trade(now)
          /\ now.time = <<9, 44, 59, 0>> => ~should_enter_trade(now))
    /\ [][pc = "gate" /\ pc' # "gate" =>
             /\ gate' = PyBool(EntryCondition(now))
             /\ (pc' = "entry") = EntryCondition(now)
             /\ now' = now
             /\ UNCHANGED strategy_state
             /\ UNCHANGED <<book, orders>>]_vars

\* C3 witness: the gate was passed at exactly ENTRY_TIME
C3_Witness ==
    /\ pc = "entry"
    /\ gate = "True"
    /\ now = [weekday |-> 0, time |-> <<9, 45, 0, 0>>]

\* the closed window 09:15:00 .. 15:30:00.000000 in seconds and microseconds
InClosedWindow(t) ==
    /\ SecondsOfDay(t) >= 9 * 3600 + 15 * 60
    /\ \/ SecondsOfDay(t) < 15 * 3600 + 30 * 60
       \/ SecondsOfDay(t) = 15 * 3600 + 30 * 60 /\ t[4] = 0

\* the half-open window 09:15:00 .. 15:30:00 without its end
InHalfOpenWindow(t) ==
    /\ SecondsOfDay(t) >= 9 * 3600 + 15 * 60
    /\ SecondsOfDay(t) < 15 * 3600 + 30 * 60

\* C4 as stated: is_market_open is the half-open window [09:15, 15:30) on
\* Monday .. Friday, false at exactly 15:30:00
C4_HalfOpenWindow ==
    /\ is_market_open(now) = (now.weekday \in 0 .. 4 /\ InHalfOpenWindow(now.time))
    /\ now.time = <<15, 30, 0, 0>> => ~is_market_open(now)

\* C4 amended: is_market_open is the closed window [09:15:00, 15:30:00] on
\* Monday .. Friday: true at 09:15:00 and at exactly 15:30:00, false from
\* the next microsecond on and on Saturday and Sunday; the monitor loop goes
\* on to a tick exactly when it holds.  nifty_algo's is_market_open is the
\* same closed window on every day of the week.
C4_ClosedWindow ==
    /\ [](/\ is_market_open(now) =
                (now.weekday \in 0 .. 4 /\ InClosedWindow(now.time))
          /\ algo_is_market_open(now) = InClosedWindow(now.time)
          /\ now.weekday \in 0 .. 4 /\ now.time = <<9, 15, 0, 0>>
                => is_market_open(now)
          /\ now.weekday \in 0 .. 4 /\ now.time = <<15, 30, 0, 0>>
                => is_market_open(now)
          /\ now.time = <<15, 30, 0, 1>> => ~is_market_open(now)
          /\ now.weekday \in {5, 6} => ~is_market_open(now))
    /\ [][pc = "monitor" /\ pc' # "monitor" =>
             (pc' = "monitor_check") =
                (position_active /\ now.weekday \in 0 .. 4
                   /\ InClosedWindow(now.time))]_vars

\* C4 witness: the monitor loop found the market open at exactly 15:30:00
C4_Witness ==
    /\ pc = "monitor_check"
    /\ now.time = <<15, 30, 0, 0>>

\* a monitoring tick whose positions query was answered (with any status)
TickAnswered == tick.status \in {"ok", "error"}

\* the P&L of the last tick reaches the target amount / the stop-loss amount
\* of the deployed capital, in hundredths of a rupee
AtOrAboveTarget == 100 * tick.pnl >= deployed_capital * TARGET_PERCENT
AtOrBelowStopLoss == 100 * tick.pnl <= 0 - deployed_capital * STOP_LOSS_PERCENT

\* C5: exit decision boundaries with deployed capital D > 0.  A P&L equal to
\* or above D * TARGET_PERCENT / 100 yields (True, TARGET), a P&L equal to
\* or below -D * STOP_LOSS_PERCENT / 100 yields (True, STOP_LOSS), and a P&L
\* strictly between the two yields (False, None).
C5_ExitBoundaries ==
    TickAnswered /\ deployed_capital > 0 =>
       /\ AtOrAboveTarget =>
             tick.should_exit /\ tick.reason = "TARGET"
       /\ AtOrBelowStopLoss =>
             tick.should_exit /\ tick.reason = "STOP_LOSS"
       /\ ~AtOrAboveTarget /\ ~AtOrBelowStopLoss =>
             ~tick.should_exit /\ tick.reason = "None"

\* C5 witness: a tick whose P&L is exactly the target amount of a positive
\* deployed capital reported TARGET
C5_Witness ==
    /\ tick.status = "ok"
    /\ deployed_capital > 0
    /\ 100 * tick.pnl = deployed_capital * TARGET_PERCENT
    /\ tick.reason = "TARGET"

\* C6: the target is checked before the stop-loss.  A tick whose P&L reaches
\* both the target amount and the stop-loss amount reports TARGET.
C6_TargetBeforeStopLoss ==
    TickAnswered /\ AtOrAboveTarget /\ AtOrBelowStopLoss =>
       tick.should_exit /\ tick.reason = "TARGET"

\* C6 witness: with no capital deployed, a tick with a P&L of 0 reached both
\* amounts
C6_Witness ==
    /\ tick.status = "ok"
    /\ deployed_capital = 0
    /\ tick.pnl = 0
    /\ AtOrAboveTarget /\ AtOrBelowStopLoss
    /\ tick.reason = "TARGET"

\* C7 as stated: forced exit at market close.  When monitor_positions has
\* returned and no tick fired a threshold, exit_all_positions was invoked
\* with MARKET_CLOSE; and MARKET_CLOSE is never a reason once a tick fired
\* TARGET or STOP_LOSS.
C7_MarketCloseExit ==
    /\ pc = "done" /\ success = "True" /\ ~tick.should_exit =>
          exit_calls = <<"MARKET_CLOSE">>
    /\ tick.should_exit =>
          \A i \in 1 .. Len(exit_calls) : exit_calls[i] # "MARKET_CLOSE"

\* C8 as stated: a failed positions query makes the tick a no-op.  The query
\* raising does not end the run, and a tick whose query was answered with a
\* non-"ok" status fires neither TARGET nor STOP_LOSS.
C8_FailedQueryIsNoOp ==
    /\ raised # "calculate_current_pnl"
    /\ tick.status = "error" => ~tick.should_exit /\ tick.reason = "None"

\* C9 as stated: when monitor_positions has returned after a complete
\* entry, the closing orders were issued and position_active is False.
C9_ExitBeforeMonitorEnds ==
    pc = "done" /\ success = "True" =>
       /\ ~position_active
       /\ \A i \in 1 .. Len(positions) :
             \E j \in 1 .. Len(ExitOrders) :
                ExitOrders[j].symbol = positions[i].symbol

\* C10 as stated: the closing basket stops on failure.  No closing order is
\* sent after one that was not accepted, and after a closing order that was
\* not accepted position_active is not reset.
C10_ExitStopsOnFailure ==
    LET X == ExitOrders
    IN  \A i \in 1 .. Len(X) :
           X[i].status = "error" => i = Len(X) /\ position_active

\* how many of net_positions the loop of exit_all_positions has handled:
\* skipped, or answered with a place_order call (which may have raised)
ExitHandled ==
    IF \/ pc = "exit_pace"
       \/ /\ pc = "crashed" /\ raised = "place_order"
          /\ ExitOrders # << >>
    THEN pos
    ELSE IF pos > 0 THEN pos - 1 ELSE 0

\* C11: the closing basket inverts each held position.  The closing orders
\* sent are, in order, one for each position with netQty # 0 that the loop
\* has handled: same symbol, quantity |netQty|, side -1 for a long and +1
\* for a short position; positions with netQty = 0 get no order.
C11_ExitInvertsHeldPositions ==
    LET X == ExitOrders
        held == SelectSeq(SubSeq(net_positions, 1, ExitHandled),
                          LAMBDA p : p.netQty # 0)
    IN  /\ Len(X) = Len(held)
        /\ \A i \in 1 .. Len(X) :
              /\ X[i].symbol = held[i].symbol
              /\ held[i].netQty > 0 =>
                    X[i].qty = held[i].netQty /\ X[i].side = -1
              /\ held[i].netQty < 0 =>
                    X[i].qty = 0 - held[i].netQty /\ X[i].side = 1

\* C11 witness: an exit ran to its end over the three legs, long and short,
\* and skipped a reported position with netQty = 0
C11_Witness ==
    /\ pc = "done"
    /\ ~position_active
    /\ Len(net_positions) = 4
    /\ net_positions[1].netQty = 0
    /\ net_positions[2].netQty > 0
    /\ net_positions[3].netQty < 0
    /\ Len(ExitOrders) = 3

\* C12 as stated: re-invoking the exit on an already-flat position is a
\* no-op.  A call made with position_active False returns at once, placing
\* no order and changing neither the book nor the flag; a call whose
\* reported positions all have netQty = 0 places no order; and in
\* particular of two successive exit_all_positions calls only the first
\* places closing orders.
C12_ReinvokedExitIsNoOp ==
    /\ [][pc = "exit" /\ pc' # "exit" /\ ~position_active =>
             /\ pc' = ret
             /\ UNCHANGED <<orders, book, position_active, net_positions>>]_vars
    /\ []((\A k \in 1 .. Len(net_positions) : net_positions[k].netQty = 0)
             => ExitOrders = << >>)
    /\ [](\A i \in 1 .. Len(ExitOrders) : ExitOrders[i].call = 1)

\* the SELL orders execute_strangle_entry has placed so far, in order
StrangleEntryOrders ==
    SelectSeq(orders, LAMBDA o : o.by = "execute_strangle_entry")

\* the BUY orders execute_strangle_exit has placed so far, in order
StrangleExitOrders ==
    SelectSeq(orders, LAMBDA o : o.by = "execute_strangle_exit")

\* C13: at most one entry cycle per run.  execute_strangle_entry is called
\* at most once by run_strategy and places at most its two legs;
\* execute_basket_entry is reached only from main's single evaluation of
\* the entry gate and places at most its three legs; and once the entry
\* has returned (entry_done, or success known) no entry leg is placed
\* again, whatever ticks follow.
C13_AtMostOneEntryCycle ==
    /\ [](/\ run.entry_calls <= 1
          /\ Len(StrangleEntryOrders) <= 2
          /\ script = "nifty_strategy" => Len(EntryOrders) <= 3)
    /\ [][pc' = "entry" /\ pc # "entry" => pc = "gate" /\ gate = "none"]_vars
    /\ [][pc' = "gate" /\ pc # "gate" => pc = "n_main"]_vars
    /\ [][pc # "n_main" => pc' # "n_main"]_vars
    /\ [][run.entry_done \/ success # "none" =>
             /\ EntryOrders' = EntryOrders
             /\ StrangleEntryOrders' = StrangleEntryOrders]_vars

\* C13 witness: the strangle was entered, the loop has slept and is at its
\* top again with the clock at or after the entry time
C13_Witness ==
    /\ pc = "s_loop"
    /\ run.entry_done
    /\ run.entry_calls = 1
    /\ Len(StrangleEntryOrders) = 2
    /\ TimeLE(STRANGLE_ENTRY_TIME, now.time)

\* a leg of execute_basket_entry was answered with a non-"ok" status
EntryRejected ==
    /\ script = "nifty_strategy"
    /\ \E i \in 1 .. Len(EntryOrders) : EntryOrders[i].status = "error"

\* the broker holds exactly side * qty of the symbol of order o
HeldAtBroker(o) ==
    \E k \in 1 .. Len(book) :
       book[k].symbol = o.symbol /\ book[k].netQty = o.side * o.qty

\* C14: a partial entry is absorbing and not compensated.  Once
\* execute_basket_entry has returned False the run is over: the rejected
\* order is the last order of any kind, no closing order exists, the book
\* never changes again, and the legs accepted before it are still open at
\* the broker with their full quantity.
C14_PartialEntryIsAbsorbing ==
    /\ [](EntryRejected =>
             /\ success = "False"
             /\ pc = "done"
             /\ orders = EntryOrders
             /\ orders[Len(orders)].status = "error"
             /\ \A i \in 1 .. Len(orders) - 1 :
                   orders[i].status = "ok" /\ HeldAtBroker(orders[i]))
    /\ [][EntryRejected => orders' = orders /\ book' = book]_vars

\* C14 witness: the third leg was rejected after two accepted legs, which
\* stay open
C14_Witness ==
    /\ script = "nifty_strategy"
    /\ success = "False"
    /\ Len(orders) = 3
    /\ orders[3].status = "error"
    /\ HeldAtBroker(orders[1])
    /\ HeldAtBroker(orders[2])

\* the legs the claim gives for an ATM strike: strike, quantity, side
ClaimedLegs(atm) ==
    << [strike |-> atm + 200, qty |-> 1 * LOT_SIZE, side |-> 1],
       [strike |-> atm + 400, qty |-> 3 * LOT_SIZE, side |-> -1],
       [strike |-> atm + 600, qty |-> 2 * LOT_SIZE, side |-> 1] >>

\* C15: the entry legs are placed in a fixed order.  In every run of
\* nifty_strategy the entry orders sent so far are, for the ATM strike of
\* some spot price, the first legs of: BUY 1 x LOT_SIZE at ATM+200, SELL
\* 3 x LOT_SIZE at ATM+400, BUY 2 x LOT_SIZE at ATM+600, all CE of one
\* expiry; and every leg before the last one sent has been answered (with
\* "ok") before the next was sent.
C15_EntryLegOrder ==
    LET E == EntryOrders
    IN  script = "nifty_strategy" /\ E # << >> =>
           \E lp \in SpotPrices :
              LET L == ClaimedLegs(calculate_atm_strike(lp))
              IN  /\ Len(E) <= 3
                  /\ \A i \in 1 .. Len(E) :
                        /\ E[i].symbol.strike = L[i].strike
                        /\ E[i].symbol.option_type = "CE"
                        /\ E[i].symbol.underlying = "NIFTY"
                        /\ E[i].symbol.expiry = E[1].symbol.expiry
                        /\ E[i].qty = L[i].qty
                        /\ E[i].side = L[i].side
                        /\ i < Len(E) => E[i].status = "ok" /\ E[i].id = i

\* C15 witness: the three legs were sent and accepted on a spot price of
\* 22025, whose ATM strike is 22000
C15_Witness ==
    /\ pc = "entry_funds"
    /\ Len(EntryOrders) = 3
    /\ EntryOrders[1].symbol.strike = 22200
    /\ EntryOrders[2].symbol.strike = 22400
    /\ EntryOrders[3].symbol.strike = 22600
    /\ EntryOrders[3].status = "ok"

\* the step is a place_order call of execute_basket_entry or of
\* exit_all_positions
PacedOrderPlaced ==
    /\ Len(orders') = Len(orders) + 1
    /\ orders'[Len(orders')].by \in {"execute_basket_entry",
                                      "exit_all_positions"}

\* C16: inter-order pacing.  Within one execution of the entry basket or
\* of the closing basket a place_order call comes at least 0.5 s after the
\* place_order call before it (the clock of the model stops at EndOfDay,
\* where no wait can be measured any more).
C16_InterOrderPacing ==
    [][PacedOrderPlaced /\ last_order_at # NoTime =>
          \/ Elapsed(last_order_at, now.time, 0, 500000)
          \/ last_order_at = EndOfDay]_vars

\* C16 witness: the second entry leg was placed at 09:45:00.5, exactly
\* 0.5 s after the entry time
C16_Witness ==
    /\ script = "nifty_strategy"
    /\ Len(EntryOrders) = 2
    /\ last_order_at = <<9, 45, 0, 500000>>

\* C17 as stated: the final P&L that exit_all_positions prints is the sum
\* of the "pl" the broker reports for the positions at that moment.
C17_FinalPnlIsBrokerSum ==
    final_pnl.printed => final_pnl.value = final_pnl.broker

\* the values a successful positions() lookup can yield as the P&L
AnsweredPnls ==
    {calculate_current_pnl(TRUE, r) : r \in AnsweredPositions(book)}

\* C18 as stated: failed broker lookups surface as failures, never as a
\* neutral default.  After a funds lookup answered with a non-"ok" status
\* the deployed capital is not one of the values a successful lookup gives
\* (in particular not 0), and a tick whose positions lookup was answered
\* with a non-"ok" status does not report a P&L that a successful lookup
\* gives (in particular not 0).
C18_FailedLookupsSurface ==
    /\ funds_status = "error" => deployed_capital \notin CapitalValues
    /\ tick.status = "error" => tick.pnl \notin AnsweredPnls

\* call i of the caller is a disconnect()
IsDisconnect(i) == driver[i].op = "disconnect"

\* the step is a disconnect() call that found its guard false
NoOpDisconnect ==
    /\ Len(driver') = Len(driver) + 1
    /\ driver'[Len(driver')].op = "disconnect"
    /\ ~driver'[Len(driver')].closed

\* the close_connection calls, the on_connect invocations and the subscribe
\* requests of a sequence of sockets
RECURSIVE ClosesOf(_)
ClosesOf(ss) ==
    IF ss = << >> THEN 0 ELSE Head(ss).closes + ClosesOf(Tail(ss))

RECURSIVE OnConnectsOf(_)
OnConnectsOf(ss) ==
    IF ss = << >> THEN 0 ELSE Head(ss).on_connects + OnConnectsOf(Tail(ss))

RECURSIVE SubscribesOf(_)
SubscribesOf(ss) ==
    IF ss = << >> THEN << >>
    ELSE Head(ss).subscribes \o SubscribesOf(Tail(ss))

\* C19: disconnect() is idempotent, on both streaming clients.  A
\* disconnect() calls close_connection exactly when the client has a socket
\* and _is_running is True, and leaves _is_running False; of two
\* disconnect() calls in succession the second closes nothing, so the pair
\* closes the transport once if the client was running and not at all
\* otherwise; a disconnect() on a client that was never connected, or
\* right after a connect() that failed, closes nothing; and a disconnect()
\* that closes nothing changes neither the socket nor the client.
C19_DisconnectIsIdempotent ==
    /\ [](/\ \A i \in 1 .. Len(driver) :
                IsDisconnect(i) =>
                   /\ driver[i].closed =
                         (driver[i].ws_before # "None"
                             /\ driver[i].running_before)
                   /\ ~driver[i].running_after
                   /\ (\A j \in 1 .. i - 1 :
                          ~(driver[j].op = "connect"
                               /\ driver[j].outcome = "ok"))
                         => ~driver[i].closed
                   /\ (i > 1 /\ driver[i - 1].op = "connect"
                             /\ driver[i - 1].outcome # "ok")
                         => ~driver[i].closed
          /\ \A i \in 1 .. Len(driver) - 1 :
                IsDisconnect(i) /\ IsDisconnect(i + 1) =>
                   /\ ~driver[i + 1].closed
                   /\ driver[i].closed = driver[i].running_before
          /\ ClosesOf(AllSockets) =
                Cardinality({i \in 1 .. Len(driver) : driver[i].closed})
                   + (IF pc = "disconnect_sleep" THEN 1 ELSE 0))
    /\ [][NoOpDisconnect => UNCHANGED <<socket, client, replaced>>]_vars

\* C19 witness: connect(), then two disconnect() calls, of which the first
\* closed the transport and the second did nothing
C19_Witness ==
    /\ Len(driver) = 3
    /\ driver[1].op = "connect" /\ driver[1].outcome = "ok"
    /\ IsDisconnect(2) /\ driver[2].closed
    /\ IsDisconnect(3) /\ ~driver[3].closed
    /\ socket.closes = 1
    /\ ~client.is_running

\* the subscribe request of the client as it was constructed
ConstructedRequest ==
    IF script = "market_data_stream"
    THEN [symbol |-> client.symbols, data_type |-> client.data_type]
    ELSE [data_type |-> client.data_types]

\* the on_open calls that have logged and not yet subscribed, of a
\* sequence of sockets
RECURSIVE OnOpensOf(_)
OnOpensOf(ss) ==
    IF ss = << >> THEN << >>
    ELSE SelectSeq(Head(ss).on_open, LAMBDA c : ~c.subscribed)
            \o OnOpensOf(Tail(ss))

\* how many on_connect invocations the sockets of a client can make: one
\* for each connect() call and one for each drop
MaxOnConnects == MaxCalls + MaxDrops * (MaxReplaced + 1)

\* C20: resubscription on every (re)connect.  Every invocation of
\* on_connect by the transport, the first and those after a drop or after
\* a new connect(), of the client's socket or of one it has replaced,
\* issues one subscribe request, with the symbol list and the data type
\* the client was constructed with (the order client: its data types),
\* which no operation changes: the requests issued and the on_open calls
\* that have not yet issued theirs are as many as the invocations, each
\* with the constructed arguments, and the n-th invocation is followed by
\* the n-th request.
C20_ResubscribeOnEveryConnect ==
    /\ [](/\ Len(SubscribesOf(AllSockets)) + Len(OnOpensOf(AllSockets))
                = OnConnectsOf(AllSockets)
          /\ \A i \in 1 .. Len(SubscribesOf(AllSockets)) :
                SubscribesOf(AllSockets)[i] = ConstructedRequest
          /\ \A i \in 1 .. Len(OnOpensOf(AllSockets)) :
                OnOpensOf(AllSockets)[i].request = ConstructedRequest)
    /\ [][ConstructedRequest' = ConstructedRequest]_vars
    /\ \A n \in 1 .. MaxOnConnects :
          (OnConnectsOf(AllSockets) >= n)
             ~> (Len(SubscribesOf(AllSockets)) >= n)

\* C20 witness: the market data client subscribed, the connection dropped,
\* and on the reconnect it subscribed again
C20_Witness ==
    /\ script = "market_data_stream"
    /\ socket.drops = 1
    /\ socket.state = "open"
    /\ socket.on_connects = 2
    /\ Len(socket.subscribes) = 2
    /\ socket.subscribes[2].symbol = client.symbols

\* the process has ended after a signal that reached the installed handler
\* while the streaming client was running
ShutDownBySignal ==
    /\ pc = "exited"
    /\ proc.signals # << >>
    /\ proc.signals[1].handled
    /\ proc.signals[1].running

\* C21: when SIGINT or SIGTERM is delivered while the streaming client is
\* running, the keep-alive loop performs no further iteration, the
\* transport is closed exactly once over the whole shutdown (a second
\* signal during the shutdown and main's except/finally paths included),
\* and the process exits with code 0.
C21_OrderlyShutdown ==
    ShutDownBySignal =>
        /\ proc.iterations = proc.signals[1].iterations
        /\ socket.closes = 1
        /\ proc.exit_code = ExitStatus.ok

\* config.yaml or auth_tokens.json is missing or lacks the key main() reads
ConfigFailure == proc.config # "ok" \/ proc.token # "ok"

\* C22: if the config file or the token file is missing (or lacks a
\* required key), main terminates with a non-zero exit status and before
\* any brokerage call (profile check, streaming connection, order) has been
\* made.  Stated for the runs no signal interferes with.
C22_ConfigFailureIsFatal ==
    (ConfigFailure /\ proc.signals = << >>) =>
        /\ proc.profile_calls = 0
        /\ socket.connects = 0
        /\ orders = << >>
        /\ pc \notin {"m_construct", "m_install_int", "m_install_term",
                     "m_connect", "m_flag", "m_ws_connect", "m_sleep",
                     "m_verify", "m_loop", "o_client", "o_client_failed",
                     "o_profile", "o_report"}
        /\ pc = "exited" => proc.exit_code # ExitStatus.ok

\* C23: when the brokerage's get_profile response is not a success, the
\* strategy is never started: should_enter_trade / run_strategy is not
\* reached and no order is placed in that run.
C23_RejectedProfileIsFatal ==
    proc.profile \in {"error", "raise"} =>
        /\ pc \in {"done", "crashed"}
        /\ gate = "none"
        /\ run = NoRun
        /\ orders = << >>

\* strangle_strategy.main printed "Login failed" and returned
C23_Witness ==
    /\ script = "strangle_strategy"
    /\ proc.profile = "error"
    /\ pc = "done"
    /\ orders = << >>

\* the branch the stated priority gives a market-data message
MarketBranch(m) ==
    CASE ~m.is_dict -> "message"
      [] m.is_dict /\ "ltp" \in m.keys -> "quote"
      [] m.is_dict /\ "ltp" \notin m.keys
           /\ m.keys \cap {"bid", "ask"} # {} -> "depth"
      [] m.is_dict /\ m.keys \cap {"ltp", "bid", "ask"} = {}
           /\ "trade_price" \in m.keys -> "trade"
      [] m.is_dict
           /\ m.keys \cap {"ltp", "bid", "ask", "trade_price"} = {} -> "update"

\* C24: market_data_stream.on_message handles every dict message in exactly
\* one branch, tried in the order quote (has "ltp") > depth (has "bid" or
\* "ask") > trade (has "trade_price") > default; a message with "ltp" is a
\* quote whatever else it carries, a message with none of the fields and
\* every non-dict message gets the default handling (the generic log line
\* of its kind), and two identical messages are handled by the same branch.
C24_MarketMessagePriority ==
    script = "market_data_stream" =>
        /\ \A i \in 1 .. Len(socket.handled) :
              socket.handled[i].by.branch = MarketBranch(socket.handled[i].message)
        /\ \A i, j \in 1 .. Len(socket.handled) :
              socket.handled[i].message = socket.handled[j].message
                 => socket.handled[i].by = socket.handled[j].by

\* a message with "ltp", "bid" and "trade_price" was handled as a quote,
\* after a message without any of the fields
C24_Witness ==
    /\ script = "market_data_stream"
    /\ Len(socket.handled) = 2
    /\ socket.handled[1].message.is_dict
    /\ socket.handled[1].message.keys = {}
    /\ socket.handled[1].by.branch = "update"
    /\ socket.handled[2].message.keys = {"ltp", "bid", "trade_price"}
    /\ socket.handled[2].by.branch = "quote"

\* the branch the stated priority gives an order-socket message
OrderBranch(m) ==
    CASE ~m.is_dict -> "message"
      [] m.is_dict /\ {"code", "message"} \subseteq m.keys -> "general"
      [] m.is_dict /\ ~({"code", "message"} \subseteq m.keys)
           /\ m.keys \cap {"orderNumber", "id"} # {} -> "order"
      [] m.is_dict /\ ~({"code", "message"} \subseteq m.keys)
           /\ m.keys \cap {"orderNumber", "id"} = {}
           /\ "tradeNumber" \in m.keys -> "trade"
      [] m.is_dict /\ ~({"code", "message"} \subseteq m.keys)
           /\ m.keys \cap {"orderNumber", "id", "tradeNumber"} = {}
           /\ m.keys \cap {"netQty", "qty"} # {} -> "position"
      [] m.is_dict /\ ~({"code", "message"} \subseteq m.keys)
           /\ m.keys \cap {"orderNumber", "id", "tradeNumber", "netQty",
                           "qty"} = {} -> "update"

\* C25: websocketTest.on_message handles every dict message in exactly one
\* branch, tried in the order general status (has "code" and "message") >
\* order update (has "orderNumber" or "id") > trade update (has
\* "tradeNumber") > position update (has "netQty" or "qty") > default; a
\* message with a trade identifier and an order identifier is an order
\* update, and a message with none of the fields gets the default handling.
C25_OrderMessagePriority ==
    script = "websocketTest" =>
        \A i \in 1 .. Len(socket.handled) :
           socket.handled[i].by.branch = OrderBranch(socket.handled[i].message)

\* a message with "tradeNumber" and "orderNumber" was handled as an order
\* update, after a message with only "code", which got the default handling
C25_Witness ==
    /\ script = "websocketTest"
    /\ Len(socket.handled) = 2
    /\ socket.handled[1].message.is_dict
    /\ socket.handled[1].message.keys = {"code"}
    /\ socket.handled[1].by.branch = "update"
    /\ socket.handled[2].message.keys = {"tradeNumber", "orderNumber"}
    /\ socket.handled[2].by.branch = "order"

\* the results of the get_strike_configuration calls made so far
Configurations ==
    SelectSeq(run.results, LAMBDA r : r.fn = "get_strike_configuration")

\* C26: for every spot price S, get_strike_configuration(S) returns the
\* same three legs on every call, and their strikes satisfy
\* ATM <= strike(BUY_ATM_CE) <= strike(SELL_CE) <= strike(BUY_HEDGE_CE),
\* each being ATM plus its offset (200, 400, 600).
C26_StrikesDeterministicAndOrdered ==
    script = "strike_selection" =>
        \A i \in 1 .. Len(Configurations) :
           LET r == Configurations[i]
               strike == [k \in 1 .. Len(r.strikes) |-> r.strikes[k].strike]
           IN  /\ r = Configurations[1]
               /\ [k \in 1 .. Len(r.strikes) |-> r.strikes[k].label]
                     = <<"BUY_ATM_CE", "SELL_CE", "BUY_HEDGE_CE">>
               /\ strike = <<r.atm_strike + 200, r.atm_strike + 400,
                             r.atm_strike + 600>>
               /\ r.atm_strike <= strike[1]
               /\ strike[1] <= strike[2]
               /\ strike[2] <= strike[3]

\* two calls on a spot price halfway between two listed strikes
C26_Witness ==
    /\ script = "strike_selection"
    /\ run.spot_price = 22075
    /\ Len(Configurations) = 2
    /\ Configurations[2].strikes[3].strike = 22700

\* C27: for every integer spot price S and strike base 50 the ATM strike
\* (calculate_atm_strike, get_atm_strike) is a multiple of 50 with
\* |ATM - S| <= 25, and ATM = S when S is a multiple of 50; for S = 22050
\* the ATM is 22050 and the three leg strikes are 22250, 22450 and 22650.
C27_AtmIsNearestStrike ==
    script = "strike_selection" =>
        \A i \in 1 .. Len(run.results) :
           LET r == run.results[i]
               S == run.spot_price
           IN  /\ r.atm_strike % 50 = 0
               /\ r.atm_strike - S <= 25
               /\ S - r.atm_strike <= 25
               /\ S % 50 = 0 => r.atm_strike = S
               /\ (S = 22050 /\ r.fn = "get_strike_configuration") =>
                     /\ r.atm_strike = 22050
                     /\ r.strikes[1].strike = 22250
                     /\ r.strikes[2].strike = 22450
                     /\ r.strikes[3].strike = 22650

\* both functions were applied to the spot price 22050
C27_Witness ==
    /\ script = "strike_selection"
    /\ run.spot_price = 22050
    /\ Len(run.results) = 2
    /\ run.results[1].fn = "get_atm_strike"
    /\ run.results[1].atm_strike = 22050
    /\ run.results[2].fn = "get_strike_configuration"
    /\ run.results[2].strikes[1].strike = 22250

\* C28: in execute_strangle_entry, if the broker does not accept the first
\* (CE) SELL order, the second (PE) SELL order is never sent and the entry
\* is reported as failed (run_strategy gets no positions to exit later).
C28_StrangleStopsOnRejectedCe ==
    (Len(StrangleEntryOrders) >= 1 /\ StrangleEntryOrders[1].status # "ok") =>
        /\ Len(StrangleEntryOrders) = 1
        /\ run.positions.is_none

\* C29: for every index LTP, execute_strangle_entry sells a CE whose strike
\* is above the ATM strike and a PE whose strike is below the ATM strike.
C29_StrangleLegsStraddleAtm ==
    \A i \in 1 .. Len(StrangleEntryOrders) :
       LET o == StrangleEntryOrders[i]
       IN  /\ o.side = -1
           /\ o.symbol.option_type = "CE" => o.symbol.strike > run.atm_strike
           /\ o.symbol.option_type = "PE" => o.symbol.strike < run.atm_strike

\* C30: over any execution of monitor_positions (the path where the
\* threshold-triggered exit and the post-loop MARKET_CLOSE exit are both
\* attempted included) at most one call of exit_all_positions sends
\* orders, so no position is sent two closing orders and none is flipped
\* to the opposite side: an accepted closing order leaves it flat.
C30_ClosingOrdersInOneInvocation ==
    script = "nifty_strategy" =>
        /\ \A i, j \in 1 .. Len(ExitOrders) :
              /\ ExitOrders[i].call = ExitOrders[j].call
              /\ i # j => ExitOrders[i].symbol # ExitOrders[j].symbol
        /\ \A i \in 1 .. Len(ExitOrders), k \in 1 .. Len(book) :
              (ExitOrders[i].status = "ok"
                 /\ book[k].symbol = ExitOrders[i].symbol)
                 => book[k].netQty = 0

\* the exit a threshold triggered failed at its positions query, and the
\* MARKET_CLOSE exit after the loop sent the closing orders
C30_Witness ==
    /\ script = "nifty_strategy"
    /\ pc = "done"
    /\ Len(exit_calls) = 2
    /\ exit_calls[1] \in {"TARGET", "STOP_LOSS"}
    /\ exit_calls[2] = "MARKET_CLOSE"
    /\ Len(ExitOrders) >= 3
    /\ \A i \in 1 .. Len(ExitOrders) : ExitOrders[i].call = 2


----------------------------------------------------------------------------
(* Monitoring without deployed capital *)

\* C31: with a deployed capital of 0 (utilized margin 0, or a failed funds
\* query) every answered monitoring tick decides to exit: TARGET when the
\* summed P&L is >= 0, which includes the 0 of a failed positions query, and
\* STOP_LOSS when it is < 0; (False, None) is never returned.
C31_ZeroCapitalExitsAtFirstTick ==
    TickAnswered /\ deployed_capital = 0 =>
       /\ tick.should_exit
       /\ tick.pnl >= 0 => tick.reason = "TARGET"
       /\ tick.pnl < 0 => tick.reason = "STOP_LOSS"
       /\ tick.status = "error" => tick.pnl = 0 /\ tick.reason = "TARGET"

\* C31 witness: after a failed funds query the tick saw a negative P&L and
\* decided STOP_LOSS
C31_Witness ==
    /\ funds_status = "error"
    /\ deployed_capital = 0
    /\ tick.status = "ok"
    /\ tick.pnl < 0
    /\ tick.should_exit
    /\ tick.reason = "STOP_LOSS"

----------------------------------------------------------------------------
(* What the exit closes *)

\* C32 as stated: the exit only closes what the strategy opened.  Every
\* closing order sent by exit_all_positions is for the symbol of a leg that
\* execute_basket_entry recorded in self.positions during this run; a
\* non-zero position on any other symbol is left untouched.
C32_ExitClosesOnlyOwnLegs ==
    \A k \in 1 .. Len(ExitOrders) :
       \E j \in 1 .. Len(positions) :
          ExitOrders[k].symbol = positions[j].symbol

----------------------------------------------------------------------------
(* The strangle exit *)

\* C33 as stated: the strangle exit only buys back legs that were sold.
\* execute_strangle_exit sends the BUY order for the CE (PE) symbol only if
\* the entry SELL order of that leg was accepted, that is, ce_order_id
\* (pe_order_id) is not None; a rejected leg never receives a BUY order.
C33_StrangleExitBuysOnlySoldLegs ==
    \A k \in 1 .. Len(StrangleExitOrders) :
       LET o == StrangleExitOrders[k]
       IN  /\ o.symbol = run.positions.ce_symbol =>
                run.positions.ce_order_id # 0
           /\ o.symbol = run.positions.pe_symbol =>
                run.positions.pe_order_id # 0

----------------------------------------------------------------------------
(* Order and termination of the strangle loop *)

\* no SELL of execute_strangle_entry follows a BUY of execute_strangle_exit
ExitAfterEntry ==
    \A i, j \in 1 .. Len(orders) :
       i < j /\ orders[i].by = "execute_strangle_exit" =>
          orders[j].by # "execute_strangle_entry"

\* run_strategy has returned: after a failed entry without any order, or
\* after the exit made on a clock value at or after exit_time
LoopEnded ==
    /\ run.entry_done
    /\ \/ run.positions.is_none /\ ~run.exit_done /\ orders = << >>
       \/ /\ ~run.positions.is_none
          /\ run.exit_done
          /\ Len(StrangleExitOrders) = 2
          /\ TimeLE(STRANGLE_EXIT_TIME, run.now)

\* C34: order and termination of the strangle loop.  In every run of
\* run_strategy no exit order is sent before the entry orders, the entry
\* and the exit are each executed at most once, an iteration that goes on
\* to sleep after the entry saw a time before exit_time, and, with the
\* statements of the script making progress, the loop eventually ends: by
\* an exception of a call, right after a failed entry, or right after the
\* exit made at the first tick with a time >= exit_time.
C34_StrangleLoopOrderAndTermination ==
    /\ [](script = "strangle_strategy" =>
            /\ ExitAfterEntry
            /\ StrangleExitOrders # << >> => run.entry_done
            /\ run.entry_calls <= 1
            /\ Len(StrangleEntryOrders) <= 2
            /\ Len(StrangleExitOrders) <= 2
            /\ pc = "s_sleep" /\ run.entry_done =>
                  ~run.exit_done /\ TimeLT(run.now, STRANGLE_EXIT_TIME)
            /\ pc = "done" /\ proc.profile = "ok" => LoopEnded)
    /\ <>(pc = "done" \/ (pc = "crashed" /\ raised # "none"))

\* C34 witness: the loop ended after an entry at a tick before exit_time
\* and the exit at a later tick
C34_Witness ==
    /\ script = "strangle_strategy"
    /\ pc = "done"
    /\ run.exit_done
    /\ Len(StrangleEntryOrders) = 2
    /\ Len(StrangleExitOrders) = 2
    /\ orders[3].by = "execute_strangle_exit"
    /\ now.time = <<15, 0, 7, 0>>
    /\ run.now = now.time

\* C35 as stated: the strangle is entered only inside its trading window.
\* run_strategy sends the entry orders only in an iteration whose clock
\* value t satisfies entry_time <= t < exit_time; a loop started at or
\* after exit_time, whose first clock value is already outside the window,
\* sends no order at all.
C35_StrangleEntryInsideWindow ==
    script = "strangle_strategy" /\ pc \in {"s_sell_ce", "s_sell_pe"} =>
       /\ TimeLE(STRANGLE_ENTRY_TIME, run.now)
       /\ TimeLT(run.now, STRANGLE_EXIT_TIME)

----------------------------------------------------------------------------
(* Entry and market data *)

\* the step of execute_strangle_entry that leaves the quote lookup
QuoteLookupDone == pc = "s_entry" /\ pc' # "s_entry"

\* the step of execute_strangle_entry that leaves the expiry lookup
ExpiryLookupDone == pc = "s_expiry" /\ pc' # "s_expiry"

\* the entry routine has ended without positions and without any order
FailedEntry ==
    /\ orders' = << >>
    /\ \/ pc' = "crashed"
       \/ pc' = "done" /\ run'.entry_done /\ run'.positions.is_none

\* C36: no entry order is placed without market data.  The strangle entry
\* goes on from the quote lookup only with a truthy last price of an "ok"
\* response carrying data, and from the expiry lookup only with an expiry
\* of an "ok" option chain; otherwise it places no order and the run ends
\* as a failed entry (None returned and the loop left, or an exception).
\* In nifty_strategy a failed quote lookup raises before any order.
C36_NoEntryWithoutMarketData ==
    /\ [][QuoteLookupDone =>
            IF pc' = "s_expiry"
            THEN \E r \in QuoteResponses :
                    /\ r.s = "ok" /\ r.has_d /\ r.lp # 0
                    /\ run'.atm_strike = get_atm_strike(r.lp, STRIKE_BASE)
            ELSE FailedEntry]_vars
    /\ [][ExpiryLookupDone =>
            IF pc' = "s_sell_ce"
            THEN \E r \in OptionChainResponses :
                    /\ r.s = "ok"
                    /\ run'.ce_symbol.expiry = ExpStr(MinDate(r.expiries, r.format))
                    /\ run'.pe_symbol.expiry = ExpStr(MinDate(r.expiries, r.format))
            ELSE FailedEntry]_vars
    /\ [](/\ StrangleEntryOrders # << >> =>
               run.atm_strike > 0 /\ run.ce_symbol # NoSymbol
          /\ raised \in {"get_ltp", "get_nearest_expiry",
                         "build_option_symbol", "get_nifty_spot_price"} =>
               orders = << >> /\ pc = "crashed"
          /\ script = "nifty_strategy" /\ EntryOrders # << >> =>
               /\ basket_orders # << >>
               /\ \E lp \in SpotPrices :
                     \A k \in 1 .. Len(basket_orders) :
                        basket_orders[k].strike
                           = BuildBasket(lp, now)[k].strike)

\* C36 witness: the strangle entry had a last price, the option chain was
\* not "ok", and the run ended without any order
C36_Witness ==
    /\ script = "strangle_strategy"
    /\ pc = "done"
    /\ run.entry_done
    /\ run.positions.is_none
    /\ run.atm_strike > 0
    /\ orders = << >>

----------------------------------------------------------------------------
(* The running flag of the streaming clients *)

\* a callback of the transport ran: on_close or on_error at a drop, or
\* on_open at a connection, from its invocation to its return
TransportCallback ==
    \/ socket'.drops # socket.drops
    \/ socket'.on_connects # socket.on_connects
    \/ socket'.on_open # socket.on_open
    \/ socket'.subscribes # socket.subscribes

\* C37: the client's running flag is changed only by connect() and
\* disconnect().  No transport callback changes the client object
\* (_is_running, symbols, data_type); the flag changes only in a statement
\* of connect() or disconnect(); so in the keep-alive loop, drops or not,
\* is_running is True as long as no signal was delivered, and main leaves
\* the loop only after a shutdown signal.
C37_FlagChangedOnlyByConnectAndDisconnect ==
    /\ [][TransportCallback => client' = client]_vars
    /\ [][client'.is_running # client.is_running =>
            Cur \in {"m_flag", "m_connect_except", "d_flag", "d_close"}]_vars
    /\ [][pc = "m_loop" /\ pc' # "m_loop" => proc'.signals # << >>]_vars
    /\ [](pc = "m_loop" /\ proc.signals = << >> => client.is_running)

\* C37 witness: the connection of market_data_stream dropped and was
\* re-established by the transport while main, without any signal, went on
\* iterating with is_running True
C37_Witness ==
    /\ script = "market_data_stream"
    /\ pc = "m_loop"
    /\ proc.signals = << >>
    /\ proc.iterations >= 1
    /\ socket.drops >= 1
    /\ socket.on_connects >= 2
    /\ socket.state = "open"
    /\ client.is_running

----------------------------------------------------------------------------
(* The RSI scheduler *)

\* C38: the RSI scheduler survives strategy failures and respects market
\* hours.  run_scheduler never ends because run_strategy raised: the step
\* after a call of run_strategy, failed or not, is the pause that leads
\* back to next_candle_close; and run_strategy is invoked at a wake-up only
\* if is_market_open() held on the clock value read at that wake-up.
C38_SchedulerSurvivesAndRespectsHours ==
    /\ [](pc \notin {"crashed", "done"} /\ raised = "none")
    /\ [][pc = "a_run" /\ pc' # "a_run" =>
            pc' = "a_pause" /\ run'.calls = run.calls + 1]_vars
    /\ [][pc = "a_pause" /\ pc' # "a_pause" => pc' = "a_next"]_vars
    /\ [][run'.calls # run.calls =>
            /\ run.last.open
            /\ algo_is_market_open([time |-> run.last.time])
            /\ run.last.outcome = "none"]_vars
    /\ [](pc = "a_run" <=> (run.last.time # NoTime /\ run.last.open
                              /\ run.last.outcome = "none"))
    /\ [](run.calls <= run.wakeups /\ run.failures <= run.calls)

\* C38 witness: a call of run_strategy raised, and the scheduler has since
\* waited for the next candle close and woken up outside market hours,
\* where it does not call run_strategy
C38_Witness ==
    /\ script = "nifty_algo"
    /\ run.failures >= 1
    /\ run.wakeups >= 2
    /\ pc = "a_pause"
    /\ ~run.last.open
    /\ run.last.outcome = "none"
====
